---- MODULE Spec2Model ----
(***************************************************************************)
(* Model of the conversational core of the tea-lounge backend:            *)
(*   IntelligentMemoryBank      (modules/intelligent-memory-bank.ts)       *)
(*   ConversationSessionManager (modules/conversation-session-manager.ts)  *)
(*   the POST /api/gigi-chat handler (enhanced-server.ts)                  *)
(*                                                                         *)
(* Conventions.                                                            *)
(*  - A confidence c is the integer 1000 * c (0.8 is 800).                 *)
(*  - Times are milliseconds since the epoch, as Date.getTime() gives.     *)
(*  - A Map is a function whose DOMAIN is the set of keys present.         *)
(*  - A text is the sequence of its words.                                 *)
(*  - lastAccessed (MemoryEntry) is written and never read by any code of  *)
(*    the repository; it is not part of the state.                         *)
(***************************************************************************)
EXTENDS Integers, Sequences, FiniteSets, TLC

VARIABLES
    now,            \* Date.now()
    memory,         \* IntelligentMemoryBank.memory : id -> MemoryEntry
    categoryIndex,  \* IntelligentMemoryBank.categoryIndex : category -> set of ids
    timelineIndex,  \* IntelligentMemoryBank.timelineIndex : dateKey -> set of ids
    sessions,       \* ConversationSessionManager.sessions : id -> ConversationSession
    factCounter,    \* RealTimeFactLearner.factCounter
    conflictCounter,\* ConflictResolver.conflictCounter
    knowledgeBase,  \* learnedFacts of knowledgeBase.json
    req,            \* the chat requests: request -> its handler's position and locals
    op,             \* the last operation called, with its arguments and its result
    prev,           \* summary of the operation called before op
    steps           \* operations called so far

bankVars == <<memory, categoryIndex, timelineIndex>>
sessionVars == <<sessions, prev>>
chatVars == <<factCounter, conflictCounter, knowledgeBase, req>>
vars == <<now, memory, categoryIndex, timelineIndex, sessions, factCounter,
          conflictCounter, knowledgeBase, req, op, prev, steps>>

----------------------------------------------------------------------------
(* Bounds of the model *)

NumFactIds == 2         \* caller-chosen fact ids
NumCategories == 2      \* categories the inputs use
MaxDays == 1            \* whole days the clock advances
MaxMs == 1              \* single milliseconds the clock advances within a day
MaxAccess == 1          \* cap on accessCount
MaxMerged == 1          \* merged facts held at a time
MaxImport == 2          \* entries of an imported snapshot
MaxContentLen == 7      \* characters of a merged content
MaxOps == 3             \* operations called in one run
NumSessionIds == 2      \* caller-chosen session ids
NumMsgIds == 2          \* message ids
MaxTimeouts == 1        \* session timeouts the clock advances
NumRequests == 2        \* chat requests
MaxModelFacts == 1      \* facts in one answer of the hosted model

----------------------------------------------------------------------------
(* Generic helpers *)

Put(f, k, v) == [x \in DOMAIN f \cup {k} |-> IF x = k THEN v ELSE f[x]]
Drop(f, k) == [x \in DOMAIN f \ {k} |-> f[x]]
EmptyMap == [x \in {} |-> 0]
Perms(S) == {s \in [1..Cardinality(S) -> S] : \A i, j \in 1..Cardinality(S) : i # j => s[i] # s[j]}
Range(s) == {s[i] : i \in DOMAIN s}
Min(a, b) == IF a < b THEN a ELSE b
Max(a, b) == IF a > b THEN a ELSE b

----------------------------------------------------------------------------
(* Input domains *)

IdPool == <<"f1", "f2", "f3", "f4">>
FactIds == {IdPool[i] : i \in 1..NumFactIds}

CategoryList ==
    <<"plans", "emotions", "preferences", "relationship", "personal",
      "interests", "concerns">>
Categories == {CategoryList[i] : i \in 1..Len(CategoryList)}
CatInputs == {CategoryList[i] : i \in 1..NumCategories}

Contents == {"a", "b"}
ConfInputs == {200, 900}
DayMs == 24 * 60 * 60 * 1000
TimeInputs == {d * DayMs : d \in 0..MaxDays}

FactInputs ==
    {f \in [id : FactIds, content : Contents, category : CatInputs,
     confidence : ConfInputs, timestamp : TimeInputs,
     source : {"msg"}, verified : {TRUE}] : f.content = (IF f.id = "f1" THEN "a" ELSE "b")}

----------------------------------------------------------------------------
(* IntelligentMemoryBank: pure operators over bank = [memory, categoryIndex, timelineIndex] *)

Bank == [memory |-> memory, categoryIndex |-> categoryIndex,
         timelineIndex |-> timelineIndex]
EmptyBank == [memory |-> EmptyMap, categoryIndex |-> EmptyMap,
              timelineIndex |-> EmptyMap]

\* Date.prototype.toDateString: the calendar day of a time
toDateString(t) == t \div DayMs

AddToBucket(index, key, id) ==
    Put(index, key, (IF key \in DOMAIN index THEN index[key] ELSE {}) \cup {id})

updateIndexes(bank, fact) ==
    [bank EXCEPT
        !.categoryIndex = AddToBucket(@, fact.category, fact.id),
        !.timelineIndex = AddToBucket(@, toDateString(fact.timestamp), fact.id)]

\* faulty variant of storeFact: an entry already stored under the id keeps its
\* revised confidence, verified flag and access count
storeFact_KeepsRevisions(bank, fact, relatedFactIds) ==
    LET entry == [fact |-> fact,
                  accessCount |-> IF fact.id \in DOMAIN bank.memory
                                  THEN bank.memory[fact.id].accessCount ELSE 0,
                  verified |-> IF fact.id \in DOMAIN bank.memory
                               THEN bank.memory[fact.id].verified ELSE fact.verified,
                  confidence |-> IF fact.id \in DOMAIN bank.memory
                                 THEN bank.memory[fact.id].confidence ELSE fact.confidence,
                  relatedFacts |-> relatedFactIds]
    IN updateIndexes([bank EXCEPT !.memory = Put(@, fact.id, entry)], fact)

storeFact(bank, fact, relatedFactIds) ==
    LET entry == [fact |-> fact,
                  accessCount |-> 0,
                  verified |-> fact.verified,
                  confidence |-> fact.confidence,
                  relatedFacts |-> relatedFactIds]
    IN updateIndexes([bank EXCEPT !.memory = Put(@, fact.id, entry)], fact)

RemoveFromBucket(index, key, id) ==
    IF key \in DOMAIN index
    THEN IF index[key] \ {id} = {}
         THEN Drop(index, key)
         ELSE [index EXCEPT ![key] = @ \ {id}]
    ELSE index

deleteFact(bank, factId) ==
    IF factId \notin DOMAIN bank.memory
    THEN bank
    ELSE LET entry == bank.memory[factId]
         IN [memory |-> Drop(bank.memory, factId),
             categoryIndex |->
                 RemoveFromBucket(bank.categoryIndex, entry.fact.category, factId),
             timelineIndex |->
                 RemoveFromBucket(bank.timelineIndex,
                                  toDateString(entry.fact.timestamp), factId)]

updateFactConfidence(bank, factId, newConfidence, verified) ==
    IF factId \in DOMAIN bank.memory
    THEN [bank EXCEPT !.memory[factId].confidence = Max(0, Min(1000, newConfidence)),
                      !.memory[factId].verified = verified]
    ELSE bank

mergedId(t) == "merged_" \o ToString(t)

resolveConflict(bank, conflictInfo, userChoice, t) ==
    LET ex == conflictInfo.existingFact
        nf == conflictInfo.newFact
    IN CASE userChoice = "new" ->
              storeFact(updateFactConfidence(bank, ex.id, 300, FALSE), nf, <<ex.id>>)
         [] userChoice = "existing" ->
              storeFact(updateFactConfidence(bank, ex.id,
                                             Min(1000, ex.confidence + 200), TRUE),
                        [nf EXCEPT !.confidence = 200], <<ex.id>>)
         [] userChoice = "merge" ->
              storeFact(bank,
                        [id |-> mergedId(t),
                         content |-> ex.content \o "; " \o nf.content,
                         category |-> nf.category,
                         confidence |-> (ex.confidence + nf.confidence) \div 2,
                         timestamp |-> t,
                         source |-> "Merged: " \o nf.source,
                         verified |-> TRUE],
                        <<ex.id, nf.id>>)

\* exported[entry.fact.category][entry.fact.id] = entry.fact.content, over the
\* entries of the Map (whose key is always the entry's fact.id)
exportKnowledge(mem) ==
    [c \in {mem[i].fact.category : i \in DOMAIN mem} |->
        [k \in {i \in DOMAIN mem : mem[i].fact.category = c} |-> mem[k].fact.content]]

\* faulty variant of importedFact: the snapshot key is stored as the content
importedFact_KeyAsContent(category, key, content, t) ==
    [id |-> key, content |-> key, category |-> category, confidence |-> 800,
     timestamp |-> t, source |-> "imported knowledge", verified |-> TRUE]

importedFact(category, key, content, t) ==
    [id |-> key, content |-> content, category |-> category, confidence |-> 800,
     timestamp |-> t, source |-> "imported knowledge", verified |-> TRUE]

RECURSIVE importCategory(_, _, _, _, _)
importCategory(bank, category, facts, keys, t) ==
    IF keys = {}
    THEN bank
    ELSE LET key == CHOOSE k \in keys : TRUE
         IN importCategory(storeFact(bank, importedFact(category, key, facts[key], t), <<>>),
                           category, facts, keys \ {key}, t)

\* order: the categories of the snapshot in Object.entries order
RECURSIVE importKnowledge(_, _, _, _)
importKnowledge(bank, knowledge, order, t) ==
    IF order = <<>>
    THEN bank
    ELSE importKnowledge(
             importCategory(bank, Head(order), knowledge[Head(order)],
                            DOMAIN knowledge[Head(order)], t),
             knowledge, Tail(order), t)

\* faulty variant of shouldDelete: the access count is not consulted
shouldDelete_IgnoringAccess(entry, minConfidence, maxAge, t) ==
    /\ entry.confidence < minConfidence
    /\ t - entry.fact.timestamp > maxAge * DayMs

shouldDelete(entry, minConfidence, maxAge, t) ==
    /\ entry.confidence < minConfidence
    /\ entry.fact.timestamp < t - maxAge * DayMs
    /\ entry.accessCount = 0

RECURSIVE deleteAll(_, _)
deleteAll(bank, toDelete) ==
    IF toDelete = {}
    THEN bank
    ELSE LET factId == CHOOSE k \in toDelete : TRUE
         IN deleteAll(deleteFact(bank, factId), toDelete \ {factId})

cleanup(bank, minConfidence, maxAge, t) ==
    deleteAll(bank, {factId \in DOMAIN bank.memory :
                        shouldDelete(bank.memory[factId], minConfidence, maxAge, t)})

\* facts.sort((a, b) => b.confidence - a.confidence): any order of the kept facts
\* that is non-increasing in the comparator's key (ties keep the order of the index
\* Set, which the model does not track)
sortedByFactConfidence(facts) ==
    {s \in Perms(facts) :
        \A i, j \in 1..Len(s) : i < j => s[i].confidence >= s[j].confidence}

\* the ids getFactsByCategory keeps: those of the category bucket with a live entry
\* whose entry.confidence reaches the threshold
\* faulty variant of keptIds: filters on the fact's own confidence
keptIds_ByFactConfidence(bank, category, minConfidence) ==
    IF category \in DOMAIN bank.categoryIndex
    THEN {i \in bank.categoryIndex[category] :
             i \in DOMAIN bank.memory /\ bank.memory[i].fact.confidence >= minConfidence}
    ELSE {}

keptIds(bank, category, minConfidence) ==
    {factId \in (IF category \in DOMAIN bank.categoryIndex
                 THEN bank.categoryIndex[category] ELSE {}) :
        /\ factId \in DOMAIN bank.memory
        /\ bank.memory[factId].confidence >= minConfidence}

getFactsByCategory(bank, category, minConfidence) ==
    sortedByFactConfidence(
        {bank.memory[factId].fact : factId \in keptIds(bank, category, minConfidence)})

touch(bank, ids) ==
    [bank EXCEPT !.memory =
        [i \in DOMAIN @ |-> IF i \in ids THEN [@[i] EXCEPT !.accessCount = @ + 1]
                                        ELSE @[i]]]

\* ConflictResolver.analyzeFactConflict: the existing fact of a ConflictInfo is a
\* mock built from one entry of the exported snapshot
mockExistingFact(newFact, existingContent, existingKey, t) ==
    [id |-> existingKey, content |-> existingContent, category |-> newFact.category,
     confidence |-> 800, timestamp |-> t - 86400000,
     source |-> "previous conversation", verified |-> TRUE]

----------------------------------------------------------------------------
(* ConversationSessionManager: pure operators over sessions = id -> ConversationSession *)

SESSION_TIMEOUT == 30 * 60 * 1000
DUPLICATE_WINDOW == 1000

NoId == ""          \* an absent sessionId
NoEmotion == ""     \* an absent emotionalState
NoMessage == [id |-> "", text |-> <<>>, sender |-> "", timestamp |-> 0]  \* undefined / null

Abs(x) == IF x < 0 THEN 0 - x ELSE x

\* String.prototype.toLowerCase, word by word
UpperToLower ==
    [Date |-> "date", Hi |-> "hi", Going |-> "going", I |-> "i", Sam |-> "sam"]
        @@ ("I'm" :> "i'm")
toLowerCase(text) ==
    [i \in DOMAIN text |->
        IF text[i] \in DOMAIN UpperToLower THEN UpperToLower[text[i]] ELSE text[i]]

\* a run of whole words of the text: what /\b(phrase)\b/ tests
hasPhrase(text, phrase) ==
    \E i \in 1..Len(text) :
        /\ i + Len(phrase) - 1 <= Len(text)
        /\ SubSeq(text, i, i + Len(phrase) - 1) = phrase

topicPatterns ==
    << [pattern |-> {<<"date">>, <<"dating">>, <<"going", "out">>}, topic |-> "dating"],
       [pattern |-> {<<"dress">>, <<"outfit">>, <<"wearing">>, <<"clothes">>},
        topic |-> "fashion"],
       [pattern |-> {<<"restaurant">>, <<"food">>, <<"eating">>, <<"meal">>},
        topic |-> "food"],
       [pattern |-> {<<"vahant">>, <<"boyfriend">>}, topic |-> "relationship"],
       [pattern |-> {<<"website">>, <<"dreamscape">>, <<"project">>}, topic |-> "projects"],
       [pattern |-> {<<"sad">>, <<"happy">>, <<"excited">>, <<"nervous">>, <<"angry">>},
        topic |-> "emotions"],
       [pattern |-> {<<"work">>, <<"job">>, <<"office">>}, topic |-> "work"],
       [pattern |-> {<<"family">>, <<"friends">>, <<"social">>}, topic |-> "social"] >>

extractTopicsFromMessage(text) ==
    LET lowerText == toLowerCase(text)
        matched == SelectSeq(topicPatterns,
                       LAMBDA p : \E phrase \in p.pattern : hasPhrase(lowerText, phrase))
    IN [i \in DOMAIN matched |-> matched[i].topic]

\* [...new Set(seq)]: the first occurrence of every element, in order
RECURSIVE uniqueInOrder(_)
uniqueInOrder(seq) ==
    IF seq = <<>>
    THEN <<>>
    ELSE LET front == uniqueInOrder(SubSeq(seq, 1, Len(seq) - 1))
         IN IF seq[Len(seq)] \in Range(front) THEN front
                                               ELSE Append(front, seq[Len(seq)])

\* Array.prototype.slice(-n)
sliceLast(seq, n) ==
    IF Len(seq) > n THEN SubSeq(seq, Len(seq) - n + 1, Len(seq)) ELSE seq

newSession(sessionId, initialMessage, t) ==
    [sessionId |-> sessionId,
     messages |-> IF initialMessage = NoMessage THEN <<>> ELSE <<initialMessage>>,
     lastActivity |-> t,
     context |-> [currentTopics |-> <<>>, emotionalState |-> "neutral",
                  ongoingConcerns |-> <<>>]]

\* sessionId is the caller's id, or the fresh randomUUID() when the caller gave none
getOrCreateSession(sess, sessionId, initialMessage, t) ==
    IF sessionId \notin DOMAIN sess
    THEN Put(sess, sessionId, newSession(sessionId, initialMessage, t))
    ELSE [sess EXCEPT ![sessionId].lastActivity = t]

\* faulty variant of messageExists: the id of the message is not compared
messageExists_TextOnly(messages, message) ==
    \E i \in 1..Len(messages) :
        /\ messages[i].text = message.text
        /\ messages[i].sender = message.sender
        /\ Abs(messages[i].timestamp - message.timestamp) < DUPLICATE_WINDOW

\* faulty variant of messageExists: a timestamp difference of exactly one second
\* still counts as the same message
messageExists_WindowInclusive(messages, message) ==
    \E i \in 1..Len(messages) :
        \/ messages[i].id = message.id
        \/ /\ messages[i].text = message.text
           /\ messages[i].sender = message.sender
           /\ Abs(messages[i].timestamp - message.timestamp) <= DUPLICATE_WINDOW

messageExists(messages, message) ==
    \E i \in 1..Len(messages) :
        \/ messages[i].id = message.id
        \/ /\ messages[i].text = message.text
           /\ messages[i].sender = message.sender
           /\ Abs(messages[i].timestamp - message.timestamp) < DUPLICATE_WINDOW

\* faulty variant of updateSession: a session is created for an unknown sessionId
updateSession_CreatesMissing(sess, sessionId, message, emotionalState, t) ==
    LET known == getOrCreateSession(sess, sessionId, NoMessage, t)
    IN IF messageExists(known[sessionId].messages, message)
       THEN known
       ELSE [known EXCEPT ![sessionId].messages = Append(@, message)]

updateSession(sess, sessionId, message, emotionalState, t) ==
    IF sessionId \notin DOMAIN sess
    THEN sess
    ELSE IF messageExists(sess[sessionId].messages, message)
    THEN sess
    ELSE LET session == sess[sessionId]
             topics == extractTopicsFromMessage(message.text)
         IN [sess EXCEPT ![sessionId] =
                [session EXCEPT
                    !.messages = Append(@, message),
                    !.lastActivity = t,
                    !.context.emotionalState =
                        IF emotionalState # NoEmotion THEN emotionalState ELSE @,
                    !.context.currentTopics =
                        IF message.sender = "user"
                        THEN sliceLast(uniqueInOrder(@ \o topics), 5)
                        ELSE @]]

getUserMessages(sess, sessionId) ==
    IF sessionId \notin DOMAIN sess
    THEN <<>>
    ELSE SelectSeq(sess[sessionId].messages, LAMBDA msg : msg.sender = "user")

getLatestUserMessage(sess, sessionId) ==
    LET userMessages == getUserMessages(sess, sessionId)
    IN IF Len(userMessages) > 0 THEN userMessages[Len(userMessages)] ELSE NoMessage

\* faulty variant of isMessageNewer: an equal timestamp counts as newer whatever the id
isMessageNewer_TimestampOnly(sess, sessionId, message) ==
    LET latestInSession == getLatestUserMessage(sess, sessionId)
    IN IF latestInSession = NoMessage
       THEN TRUE
       ELSE message.timestamp >= latestInSession.timestamp

isMessageNewer(sess, sessionId, message) ==
    LET latestInSession == getLatestUserMessage(sess, sessionId)
    IN IF latestInSession = NoMessage
       THEN TRUE
       ELSE \/ message.timestamp > latestInSession.timestamp
            \/ /\ message.timestamp = latestInSession.timestamp
               /\ message.id # latestInSession.id

getSessionContext(sess, sessionId) ==
    IF sessionId \in DOMAIN sess
    THEN sess[sessionId].context
    ELSE [currentTopics |-> <<>>, emotionalState |-> "neutral", ongoingConcerns |-> <<>>]

\* faulty variant of expired: a session idle for exactly the timeout is expired
expired_AtTimeout(session, t) == t - session.lastActivity >= SESSION_TIMEOUT

expired(session, t) == t - session.lastActivity > SESSION_TIMEOUT

cleanupExpiredSessions(sess, t) ==
    [sessionId \in {i \in DOMAIN sess : ~expired(sess[i], t)} |-> sess[sessionId]]

----------------------------------------------------------------------------
(* Text analysis shared by the modules of the chat turn *)

\* what a property missing from the hosted model's JSON reads as
Undefined == <<"(undefined)">>

\* the words of the vocabulary that hold another word as a substring
Substrings == {<<"outfit", "out">>}

\* String.prototype.includes(needle) on one word of a text
within(word, needle) == word = needle \/ <<word, needle>> \in Substrings

\* String.prototype.includes(phrase), the phrase being a sequence of words
includes(text, phrase) ==
    IF Len(phrase) = 1
    THEN \E i \in 1..Len(text) : within(text[i], phrase[1])
    ELSE hasPhrase(text, phrase)

\* number of phrases of a list that the text includes
RECURSIVE countIncluded(_, _)
countIncluded(text, phrases) ==
    IF phrases = <<>>
    THEN 0
    ELSE (IF includes(text, Head(phrases)) THEN 1 ELSE 0)
            + countIncluded(text, Tail(phrases))

----------------------------------------------------------------------------
(* EmotionDetector *)

validEmotions ==
    {"happy", "sad", "angry", "excited", "neutral", "anxious", "frustrated", "love",
     "confused"}
validIntensities == {"low", "medium", "high"}

validateEmotion(emotion) == IF emotion \in validEmotions THEN emotion ELSE "neutral"
validateIntensity(intensity) ==
    IF intensity \in validIntensities THEN intensity ELSE "medium"

greetings == {<<"hi">>, <<"hello">>, <<"hey">>, <<"good", "morning">>, <<"good", "evening">>}

isSimpleGreeting(message) ==
    LET lowerMessage == toLowerCase(message)
    IN \E greeting \in greetings :
          /\ Len(lowerMessage) >= Len(greeting)
          /\ SubSeq(lowerMessage, 1, Len(greeting)) = greeting

\* faulty variant of greetingEmotion: the result of getDefaultEmotion
greetingEmotion_Default ==
    [primaryEmotion |-> "neutral", intensity |-> "low", isAngryWithVahant |-> FALSE,
     confidence |-> 1000]

greetingEmotion ==
    [primaryEmotion |-> "happy", intensity |-> "low", isAngryWithVahant |-> FALSE,
     confidence |-> 900]

emotionKeywords ==
    << [emotion |-> "happy",
        keywords |-> << <<"happy">>, <<"joy">>, <<"excited">>, <<"amazing">>,
                        <<"wonderful">>, <<"great">>, <<"awesome">>, <<"yay">> >>],
       [emotion |-> "sad",
        keywords |-> << <<"sad">>, <<"depressed">>, <<"down">>, <<"upset">>,
                        <<"crying">>, <<"hurt">>, <<"disappointed">> >>],
       [emotion |-> "angry",
        keywords |-> << <<"angry">>, <<"mad">>, <<"furious">>, <<"annoyed">>,
                        <<"irritated">>, <<"frustrated">>, <<"pissed">> >>],
       [emotion |-> "excited",
        keywords |-> << <<"excited">>, <<"thrilled">>, <<"can't", "wait">>,
                        <<"amazing">>, <<"omg">>, <<"wow">> >>],
       [emotion |-> "anxious",
        keywords |-> << <<"worried">>, <<"nervous">>, <<"anxious">>, <<"scared">>,
                        <<"concerned">>, <<"stress">> >>],
       [emotion |-> "confused",
        keywords |-> << <<"confused">>, <<"don't", "understand">>, <<"what">>,
                        <<"huh">>, <<"unclear">> >>],
       [emotion |-> "love",
        keywords |-> << <<"love">>, <<"adore">>, <<"amazing">>, <<"perfect">>,
                        <<"best">>, <<"wonderful">> >>] >>

\* the loop over emotionKeywords: best is the entry of the highest score so far,
\* a score being hits / size, and a later entry wins only with a higher score
RECURSIVE bestEmotion(_, _, _)
bestEmotion(lowerMessage, i, best) ==
    IF i > Len(emotionKeywords)
    THEN best
    ELSE LET hits == countIncluded(lowerMessage, emotionKeywords[i].keywords)
             size == Len(emotionKeywords[i].keywords)
         IN IF hits * best.size > best.hits * size
            THEN bestEmotion(lowerMessage, i + 1,
                     [emotion |-> emotionKeywords[i].emotion, hits |-> hits, size |-> size])
            ELSE bestEmotion(lowerMessage, i + 1, best)

fallbackEmotionDetection(message) ==
    LET lowerMessage == toLowerCase(message)
        best == bestEmotion(lowerMessage, 1, [emotion |-> "neutral", hits |-> 0, size |-> 1])
        angryHits == countIncluded(lowerMessage, emotionKeywords[3].keywords)
    IN [primaryEmotion |-> best.emotion,
        intensity |-> IF best.hits * 10 > 6 * best.size THEN "high"
                      ELSE IF best.hits * 10 > 3 * best.size THEN "medium" ELSE "low",
        isAngryWithVahant |->
            /\ includes(lowerMessage, <<"vahant">>)
            /\ angryHits * 10 > 3 * Len(emotionKeywords[3].keywords),
        confidence |-> 600]

\* outcome.kind is "ok" (JSON, read into outcome.parsed), "malformed" (no JSON in
\* the text, or JSON.parse fails) or "throw" (generateContent rejects)
parseEmotionResponse(outcome, originalMessage) ==
    IF outcome.kind = "ok"
    THEN [primaryEmotion |-> validateEmotion(outcome.parsed.primaryEmotion),
          intensity |-> validateIntensity(outcome.parsed.intensity),
          isAngryWithVahant |-> outcome.parsed.isAngryWithVahant,
          confidence |->
              Max(0, Min(1000, IF outcome.parsed.confidence = 0
                               THEN 500 ELSE outcome.parsed.confidence))]
    ELSE fallbackEmotionDetection(originalMessage)

\* detectEmotion from the return of the hosted model on
emotionFrom(outcome, message) ==
    IF outcome.kind = "throw"
    THEN fallbackEmotionDetection(message)
    ELSE parseEmotionResponse(outcome, message)

----------------------------------------------------------------------------
(* RealTimeFactLearner *)

simpleWords ==
    {"hi", "hello", "hey", "yes", "no", "ok", "okay", "thanks", "bye", "lol", "haha",
     "omg", "wow"}
\* the words of the vocabulary that /^[a-z]{1,3}$/i takes: letters only
lettersOnly(word) == word \notin {"r1"}

isSimpleMessage(message) ==
    /\ Len(message) = 1
    /\ \/ toLowerCase(message)[1] \in simpleWords
       \/ Len(message[1]) <= 3 /\ lettersOnly(message[1])

\* faulty variant of generateFactId: the id is made of the clock alone
generateFactId_ClockOnly(t, counter) == "fact_" \o ToString(t)

generateFactId(t, counter) == "fact_" \o ToString(t) \o "_" \o ToString(counter)

\* the learned facts of a list of factData objects, ids drawn from counter + 1 on
RECURSIVE learnedFrom(_, _, _, _)
learnedFrom(factDatas, originalMessage, counter, t) ==
    IF factDatas = <<>>
    THEN [facts |-> <<>>, counter |-> counter]
    ELSE LET factData == Head(factDatas)
         IN IF factData.confidence >= 500
            THEN LET rest == learnedFrom(Tail(factDatas), originalMessage, counter + 1, t)
                 IN [facts |->
                        <<[id |-> generateFactId(t, counter + 1),
                           content |-> factData.content,
                           category |-> factData.category,
                           confidence |-> factData.confidence,
                           timestamp |-> t,
                           source |-> originalMessage,
                           verified |-> ~factData.needsVerification]>> \o rest.facts,
                     counter |-> rest.counter]
            ELSE learnedFrom(Tail(factDatas), originalMessage, counter, t)

\* positions of the text where a word holds one of the needles
positions(text, needles) ==
    {i \in 1..Len(text) : \E needle \in needles : within(text[i], needle)}

\* the content each pattern of fallbackFactExtraction gives, <<>> when it does not match
fallbackContents(message) ==
    LET lower == toLowerCase(message)
        going == positions(lower, {"going"})
        outing == positions(lower, {"date", "dinner", "out"})
        him == positions(lower, {"vahant"})
                 \cup {i \in 1..Len(lower) - 1 : lower[i] = "with" /\ lower[i + 1] = "him"}
        wearing == positions(lower, {"wearing"})
        outfit == positions(lower, {"dress", "outfit", "clothes"})
        feeling == {i \in 1..Len(lower) - 1 :
                       /\ lower[i] \in {"feel", "feeling"}
                       /\ lower[i + 1] \in {"sad", "happy", "excited", "nervous", "angry"}}
        goingTo == {i \in 1..Len(lower) - 2 : lower[i] = "going" /\ lower[i + 1] = "to"}
        first(S) == CHOOSE i \in S : \A j \in S : i <= j
        last(S) == CHOOSE i \in S : \A j \in S : j <= i
    IN << IF \E i \in going, j \in outing, k \in him : i < j /\ j < k
          THEN <<"Plans", "to", "go", "on", "date", "with", "Vahant">> ELSE <<>>,
          IF \E i \in wearing, j \in outfit : i < j
          THEN <<"Outfit", "choice:">> \o SubSeq(message, first(wearing), last(outfit))
          ELSE <<>>,
          IF feeling # {}
          THEN <<"Current", "emotion:", message[first(feeling) + 1]>> ELSE <<>>,
          IF goingTo # {}
          THEN <<"Plans", "to", "visit:">> \o
                  (IF message[first(goingTo)] = "going"
                   THEN SubSeq(message, first(goingTo) + 2, Len(message))
                   ELSE SubSeq(message, first(goingTo), Len(message)))
          ELSE <<>> >>

fallbackCategories == <<"plans", "preferences", "emotions", "plans">>

RECURSIVE fallbackFrom(_, _, _, _, _)
fallbackFrom(contents, i, message, counter, t) ==
    IF i > Len(contents)
    THEN [facts |-> <<>>, counter |-> counter]
    ELSE IF contents[i] = <<>>
    THEN fallbackFrom(contents, i + 1, message, counter, t)
    ELSE LET rest == fallbackFrom(contents, i + 1, message, counter + 1, t)
         IN [facts |->
                <<[id |-> generateFactId(t, counter + 1), content |-> contents[i],
                   category |-> fallbackCategories[i], confidence |-> 700,
                   timestamp |-> t, source |-> message, verified |-> TRUE]>>
                    \o rest.facts,
             counter |-> rest.counter]

fallbackFactExtraction(message, counter, t) ==
    fallbackFrom(fallbackContents(message), 1, message, counter, t)

\* outcome.kind is "ok" (JSON whose facts array is outcome.facts), "malformed" (no
\* JSON in the text, or JSON.parse fails) or "throw" (generateContent rejects)
parseFactExtractionResponse(outcome, originalMessage, counter, t) ==
    IF outcome.kind = "ok"
    THEN learnedFrom(outcome.facts, originalMessage, counter, t)
    ELSE fallbackFactExtraction(originalMessage, counter, t)

\* extractFacts from the return of the hosted model on
factsFrom(outcome, message, counter, t) ==
    IF outcome.kind = "throw"
    THEN fallbackFactExtraction(message, counter, t)
    ELSE parseFactExtractionResponse(outcome, message, counter, t)

\* extractFacts: a simple message is answered at once, without the hosted model
extractFacts(outcome, message, counter, t) ==
    IF isSimpleMessage(message)
    THEN [facts |-> <<>>, counter |-> counter]
    ELSE factsFrom(outcome, message, counter, t)

----------------------------------------------------------------------------
(* ConflictResolver *)

NoConflict ==
    [conflictType |-> "none", severity |-> "", clarificationQuestion |-> <<>>,
     suggestedResolution |-> ""]

includesAny(text, words) == \E word \in words : includes(text, word)

emotionConflicts ==
    << [positive |-> {<<"happy">>, <<"excited">>, <<"joy">>},
        negative |-> {<<"sad">>, <<"angry">>, <<"depressed">>}],
       [positive |-> {<<"love">>, <<"like">>}, negative |-> {<<"hate">>, <<"dislike">>}],
       [positive |-> {<<"calm">>, <<"relaxed">>},
        negative |-> {<<"nervous">>, <<"anxious">>, <<"stressed">>}] >>

clashes(group, newContent, existingContent) ==
    \/ includesAny(newContent, group.positive) /\ includesAny(existingContent, group.negative)
    \/ includesAny(newContent, group.negative) /\ includesAny(existingContent, group.positive)

\* faulty variant of findCommonTerms: only words of more than 5 letters count
findCommonTerms_LongWordsOnly(text1, text2) ==
    SelectSeq(text1, LAMBDA word : Len(word) > 5 /\ word \in Range(text2))

findCommonTerms(text1, text2) ==
    SelectSeq(text1, LAMBDA word : Len(word) > 3 /\ word \in Range(text2))

likeWords == {<<"like">>, <<"love">>, <<"enjoy">>, <<"prefer">>}
dislikeWords == {<<"hate">>, <<"dislike">>, <<"don't", "like">>, <<"avoid">>}

checkContradiction(newFact, existingFact) ==
    LET newContent == toLowerCase(newFact.content)
        existingContent == toLowerCase(existingFact.content)
        polarity(content, group) ==
            IF includesAny(content, group.positive) THEN "positive" ELSE "negative"
    IN IF /\ newFact.category = "emotions"
          /\ \E i \in 1..Len(emotionConflicts) :
                clashes(emotionConflicts[i], newContent, existingContent)
       THEN LET group == emotionConflicts[
                    CHOOSE i \in 1..Len(emotionConflicts) :
                        /\ clashes(emotionConflicts[i], newContent, existingContent)
                        /\ \A j \in 1..(i - 1) :
                              ~clashes(emotionConflicts[j], newContent, existingContent)]
            IN [conflictType |-> "contradiction", severity |-> "high",
                clarificationQuestion |->
                    <<"feeling", polarity(newContent, group), "earlier",
                      polarity(existingContent, group)>>,
                suggestedResolution |-> "clarify"]
       ELSE IF /\ newFact.category = "relationship"
               /\ includes(newContent, <<"single">>)
               /\ includes(existingContent, <<"vahant">>)
       THEN [conflictType |-> "contradiction", severity |-> "high",
             clarificationQuestion |-> <<"single", "or", "with", "Vahant">>,
             suggestedResolution |-> "clarify"]
       ELSE IF /\ newFact.category = "preferences"
               /\ \/ /\ includesAny(newContent, likeWords)
                     /\ includesAny(existingContent, dislikeWords)
                  \/ /\ includesAny(newContent, dislikeWords)
                     /\ includesAny(existingContent, likeWords)
               /\ findCommonTerms(newContent, existingContent) # <<>>
       THEN [conflictType |-> "contradiction", severity |-> "medium",
             clarificationQuestion |->
                 <<"like", "or", "dislike",
                   findCommonTerms(newContent, existingContent)[1]>>,
             suggestedResolution |-> "clarify"]
       ELSE NoConflict

timePatterns ==
    << {<<"today">>, <<"tomorrow">>, <<"tonight">>, <<"this", "evening">>},
       {<<"monday">>, <<"tuesday">>, <<"wednesday">>, <<"thursday">>, <<"friday">>,
        <<"saturday">>, <<"sunday">>},
       {<<"1st">>, <<"2nd">>, <<"3rd">>, <<"4th">>},
       {<<"next", "week">>, <<"this", "week">>, <<"next", "month">>} >>

\* where a phrase starts in a text
startsAt(text, phrase, i) ==
    /\ i + Len(phrase) - 1 <= Len(text)
    /\ SubSeq(text, i, i + Len(phrase) - 1) = phrase

\* the leftmost match of the first pattern that matches; <<>> is null
extractTimeReference(text) ==
    LET matches(k) == \E phrase \in timePatterns[k] : hasPhrase(text, phrase)
    IN IF \E k \in 1..Len(timePatterns) : matches(k)
       THEN LET k == CHOOSE x \in 1..Len(timePatterns) :
                        matches(x) /\ \A y \in 1..(x - 1) : ~matches(y)
                at == CHOOSE i \in 1..Len(text) :
                        /\ \E phrase \in timePatterns[k] : startsAt(text, phrase, i)
                        /\ \A j \in 1..(i - 1) :
                              \A phrase \in timePatterns[k] : ~startsAt(text, phrase, j)
            IN CHOOSE phrase \in timePatterns[k] : startsAt(text, phrase, at)
       ELSE <<>>

checkTemporalConflict(newFact, existingFact) ==
    LET newContent == toLowerCase(newFact.content)
        existingContent == toLowerCase(existingFact.content)
        newTime == extractTimeReference(newContent)
        existingTime == extractTimeReference(existingContent)
    IN IF /\ newFact.category = "plans"
          /\ includes(newContent, <<"date">>)
          /\ includes(existingContent, <<"date">>)
          /\ newTime # <<>>
          /\ existingTime # <<>>
          /\ newTime # existingTime
       THEN [conflictType |-> "temporal", severity |-> "medium",
             clarificationQuestion |-> <<"date">> \o newTime \o <<"earlier">> \o existingTime,
             suggestedResolution |-> "clarify"]
       ELSE NoConflict

\* calculateContentSimilarity as the pair <<size of the intersection, size of the union>>
calculateContentSimilarity(text1, text2) ==
    LET words1 == Range(toLowerCase(text1))
        words2 == Range(toLowerCase(text2))
    IN <<Cardinality(words1 \cap words2), Cardinality(words1 \cup words2)>>

checkInconsistency(newFact, existingFact) ==
    LET similarity == calculateContentSimilarity(newFact.content, existingFact.content)
    IN IF /\ newFact.confidence < 600
          /\ existingFact.confidence > 800
          /\ 10 * similarity[1] > 3 * similarity[2]
          /\ 10 * similarity[1] < 8 * similarity[2]
       THEN [conflictType |-> "inconsistency", severity |-> "low",
             clarificationQuestion |-> <<"similar", "before">>,
             suggestedResolution |-> "merge"]
       ELSE NoConflict

checkAmbiguity(newFact, existingFact) ==
    LET similarity == calculateContentSimilarity(newFact.content, existingFact.content)
    IN IF /\ newFact.category = existingFact.category
          /\ ~newFact.verified
          /\ 10 * similarity[1] > 5 * similarity[2]
          /\ 10 * similarity[1] < 9 * similarity[2]
       THEN [conflictType |-> "ambiguity", severity |-> "low",
             clarificationQuestion |-> <<"same", "or", "new">>,
             suggestedResolution |-> "clarify"]
       ELSE NoConflict

generateConflictId(t, counter) == "conflict_" \o ToString(t) \o "_" \o ToString(counter)

\* faulty variant of analyzeFactConflict: the ambiguity check runs first
analyzeFactConflict_AmbiguityFirst(newFact, existingContent, existingKey, t) ==
    LET orElse(conflict, next) == IF conflict # NoConflict THEN conflict ELSE next
        analyze(existingFact) ==
            [found |-> orElse(checkAmbiguity(newFact, existingFact),
                       orElse(checkContradiction(newFact, existingFact),
                       orElse(checkTemporalConflict(newFact, existingFact),
                              checkInconsistency(newFact, existingFact)))),
             newFact |-> newFact, existingFact |-> existingFact]
    IN analyze(mockExistingFact(newFact, existingContent, existingKey, t))

\* the first of the four checks that reports a conflict
analyzeFactConflict(newFact, existingContent, existingKey, t) ==
    LET orElse(conflict, next) == IF conflict # NoConflict THEN conflict ELSE next
        analyze(existingFact) ==
            [found |-> orElse(checkContradiction(newFact, existingFact),
                       orElse(checkTemporalConflict(newFact, existingFact),
                       orElse(checkInconsistency(newFact, existingFact),
                              checkAmbiguity(newFact, existingFact)))),
             newFact |-> newFact, existingFact |-> existingFact]
    IN analyze(mockExistingFact(newFact, existingContent, existingKey, t))

\* checkContradiction calls toLowerCase on both contents first
contentThrows(newFact, existingContent) ==
    newFact.content = Undefined \/ existingContent = Undefined

\* faulty variant of pairsToAnalyze: a new fact is paired with the entries of every
\* bucket of the snapshot, not only with those of the bucket of its category
RECURSIVE pairsToAnalyze_AllBuckets(_, _)
pairsToAnalyze_AllBuckets(newFacts, existingFacts) ==
    IF newFacts = <<>>
    THEN <<>>
    ELSE LET newFact == Head(newFacts)
             slots == UNION {{<<c, k>> : k \in DOMAIN existingFacts[c]} :
                                c \in DOMAIN existingFacts}
             keys == CHOOSE order \in Perms(slots) : TRUE
         IN [i \in 1..Len(keys) |->
                [newFact |-> newFact, key |-> keys[i][2],
                 existingContent |-> existingFacts[keys[i][1]][keys[i][2]]]]
            \o pairsToAnalyze_AllBuckets(Tail(newFacts), existingFacts)

\* the (new fact, existing key) pairs in the order detectConflicts visits them
RECURSIVE pairsToAnalyze(_, _)
pairsToAnalyze(newFacts, existingFacts) ==
    IF newFacts = <<>>
    THEN <<>>
    ELSE LET newFact == Head(newFacts)
             categoryFacts == IF newFact.category \in DOMAIN existingFacts
                              THEN existingFacts[newFact.category] ELSE EmptyMap
             keys == CHOOSE order \in Perms(DOMAIN categoryFacts) : TRUE
         IN [i \in 1..Len(keys) |->
                [newFact |-> newFact, key |-> keys[i],
                 existingContent |-> categoryFacts[keys[i]]]]
            \o pairsToAnalyze(Tail(newFacts), existingFacts)

RECURSIVE analyzeAll(_, _, _)
analyzeAll(pairs, acc, t) ==
    IF pairs = <<>> \/ acc.threw
    THEN acc
    ELSE LET pair == Head(pairs)
         IN IF contentThrows(pair.newFact, pair.existingContent)
            THEN [acc EXCEPT !.threw = TRUE]
            ELSE LET push(info) ==
                         IF info.found = NoConflict
                         THEN acc
                         ELSE [acc EXCEPT
                                !.counter = @ + 1,
                                !.conflicts = Append(@,
                                    [conflictId |-> generateConflictId(t, acc.counter + 1),
                                     newFact |-> info.newFact,
                                     existingFact |-> info.existingFact,
                                     conflictType |-> info.found.conflictType,
                                     severity |-> info.found.severity,
                                     clarificationQuestion |->
                                         info.found.clarificationQuestion,
                                     suggestedResolution |->
                                         info.found.suggestedResolution])]
                 IN analyzeAll(Tail(pairs),
                               push(analyzeFactConflict(pair.newFact, pair.existingContent,
                                                        pair.key, t)),
                               t)

needsAttention(conflict) ==
    conflict.severity = "high" \/ conflict.conflictType = "contradiction"

detectConflicts(newFacts, existingFacts, counter, t) ==
    LET resolution(done) ==
            [threw |-> done.threw,
             conflicts |-> done.conflicts,
             hasConflicts |-> Len(done.conflicts) > 0,
             needsImmediateAttention |-> SelectSeq(done.conflicts, needsAttention),
             counter |-> done.counter]
    IN resolution(analyzeAll(pairsToAnalyze(newFacts, existingFacts),
                             [threw |-> FALSE, conflicts |-> <<>>, counter |-> counter],
                             t))

----------------------------------------------------------------------------
(* IntelligentMemoryBank.getContextualFacts *)

\* relevanceScore of an entry, times 1000
relevanceScore(entry, messageWords, categories, t) ==
    LET factWords == Range(toLowerCase(entry.fact.content))
        commonWords == SelectSeq(messageWords,
                           LAMBDA word : word \in factWords /\ Len(word) > 3)
    IN (IF categories = {} \/ entry.fact.category \in categories THEN 300 ELSE 0)
       + Len(commonWords) * 200
       + (entry.fact.confidence * 300) \div 1000
       + (IF t - entry.fact.timestamp < 24 * 60 * 60 * 1000 THEN 200 ELSE 0)
       + Min(entry.accessCount * 100, 300)

\* threw: toLowerCase is called on a content that is not a string;
\* otherwise the facts handed out have their accessCount raised
getContextualFacts(bank, currentMessage, categories, limit, t) ==
    LET messageWords == toLowerCase(currentMessage)
        score(i) == relevanceScore(bank.memory[i], messageWords, categories, t)
        relevant == {i \in DOMAIN bank.memory : score(i) > 500}
        top == IF Cardinality(relevant) <= limit
               THEN relevant
               ELSE CHOOSE S \in SUBSET relevant :
                       /\ Cardinality(S) = limit
                       /\ \A a \in S, b \in relevant \ S : score(a) >= score(b)
    IN IF \E i \in DOMAIN bank.memory : bank.memory[i].fact.content = Undefined
       THEN [threw |-> TRUE, bank |-> bank]
       ELSE [threw |-> FALSE, bank |-> touch(bank, top)]

----------------------------------------------------------------------------
(* ContextualResponseEngine *)

fallbackResponses ==
    << <<"Bestie,", "I'm", "having", "a", "moment">>,
       <<"Girl,", "my", "brain", "just", "glitched!">>,
       <<"OMG", "technical", "difficulties!">> >>

integrateConflictClarification(response, conflicts) ==
    LET highPriorityConflicts == SelectSeq(conflicts, needsAttention)
        mediumConflicts == SelectSeq(conflicts, LAMBDA c : c.severity = "medium")
    IN IF Len(highPriorityConflicts) > 0
       THEN response \o <<"Wait", "bestie,">>
                \o highPriorityConflicts[1].clarificationQuestion
       ELSE IF Len(mediumConflicts) > 0
       THEN response \o <<"By", "the", "way,">> \o mediumConflicts[1].clarificationQuestion
       ELSE response

\* the words of the vocabulary that begin with another word, and those that hold a
\* question mark
Prefixes == {<<"however", "how">>, <<"what's", "what">>, <<"you?", "you">>}
QuestionMarked == {"really?", "you?"}

\* String.prototype.startsWith(phrase), the phrase being a sequence of words
startsWith(text, phrase) ==
    /\ Len(text) >= Len(phrase)
    /\ SubSeq(text, 1, Len(phrase) - 1) = SubSeq(phrase, 1, Len(phrase) - 1)
    /\ \/ text[Len(phrase)] = phrase[Len(phrase)]
       \/ <<text[Len(phrase)], phrase[Len(phrase)]>> \in Prefixes

\* /^(hi|hello|hey|hiya|sup|yo)(\s|$)/i, /^good\s+(morning|afternoon|evening)/i,
\* /^what'?s\s+up/i
isGreeting(message) ==
    LET lower == toLowerCase(message)
    IN \/ /\ Len(lower) >= 1
          /\ lower[1] \in {"hi", "hello", "hey", "hiya", "sup", "yo"}
       \/ /\ Len(lower) >= 2
          /\ lower[1] = "good"
          /\ \E time \in {"morning", "afternoon", "evening"} :
                startsWith(<<lower[2]>>, <<time>>)
       \/ /\ Len(lower) >= 2
          /\ lower[1] \in {"whats", "what's"}
          /\ startsWith(<<lower[2]>>, <<"up">>)

isQuestion(message) ==
    \/ \E i \in DOMAIN message : message[i] \in QuestionMarked
    \/ \E phrase \in {<<"what">>, <<"how">>, <<"why">>, <<"when">>, <<"where">>,
                       <<"who">>, <<"can", "you">>, <<"do", "you">>} :
          startsWith(toLowerCase(message), phrase)

\* faulty variant of determineResponseStrategy: the learned facts are looked at
\* before the emotion
determineResponseStrategy_FactsFirst(context) ==
    LET message == toLowerCase(context.currentMessage)
        emotionAnalysis == context.emotionAnalysis
        factTypes == {context.learnedFacts[i].category : i \in DOMAIN context.learnedFacts}
        strategy(type, confidence, priority) ==
            [type |-> type, confidence |-> confidence, priority |-> priority]
    IN IF \E i \in DOMAIN context.conflicts : context.conflicts[i].severity = "high"
       THEN strategy("clarification_required", 950, "clarify")
       ELSE IF "plans" \in factTypes
       THEN strategy("plan_acknowledgment", 800, "learn")
       ELSE IF "relationship" \in factTypes
       THEN strategy("relationship_focus", 800, "learn")
       ELSE IF "preferences" \in factTypes
       THEN strategy("preference_exploration", 800, "learn")
       ELSE IF emotionAnalysis.intensity = "high" /\ emotionAnalysis.isAngryWithVahant
       THEN strategy("supportive_roast", 900, "immediate")
       ELSE IF emotionAnalysis.intensity = "high" /\ emotionAnalysis.primaryEmotion = "sad"
       THEN strategy("emotional_support", 900, "immediate")
       ELSE IF /\ emotionAnalysis.intensity = "high"
               /\ emotionAnalysis.primaryEmotion = "excited"
       THEN strategy("excitement_matching", 900, "immediate")
       ELSE IF isGreeting(message)
       THEN strategy("contextual_greeting", 900, "respond")
       ELSE IF isQuestion(message)
       THEN strategy("intelligent_answer", 700, "respond")
       ELSE strategy("adaptive_conversation", 800, "respond")

determineResponseStrategy(context) ==
    LET message == toLowerCase(context.currentMessage)
        emotionAnalysis == context.emotionAnalysis
        conflicts == context.conflicts
        learnedFacts == context.learnedFacts
        factTypes == {learnedFacts[i].category : i \in DOMAIN learnedFacts}
        strategy(type, confidence, priority) ==
            [type |-> type, confidence |-> confidence, priority |-> priority]
    IN IF Len(conflicts) > 0 /\ \E i \in DOMAIN conflicts : conflicts[i].severity = "high"
       THEN strategy("clarification_required", 950, "clarify")
       ELSE IF emotionAnalysis.intensity = "high" /\ emotionAnalysis.isAngryWithVahant
       THEN strategy("supportive_roast", 900, "immediate")
       ELSE IF emotionAnalysis.intensity = "high" /\ emotionAnalysis.primaryEmotion = "sad"
       THEN strategy("emotional_support", 900, "immediate")
       ELSE IF /\ emotionAnalysis.intensity = "high"
               /\ emotionAnalysis.primaryEmotion = "excited"
       THEN strategy("excitement_matching", 900, "immediate")
       ELSE IF Len(learnedFacts) > 0 /\ "plans" \in factTypes
       THEN strategy("plan_acknowledgment", 800, "learn")
       ELSE IF Len(learnedFacts) > 0 /\ "relationship" \in factTypes
       THEN strategy("relationship_focus", 800, "learn")
       ELSE IF Len(learnedFacts) > 0 /\ "preferences" \in factTypes
       THEN strategy("preference_exploration", 800, "learn")
       ELSE IF isGreeting(message)
       THEN strategy("contextual_greeting", 900, "respond")
       ELSE IF isQuestion(message)
       THEN strategy("intelligent_answer", 700, "respond")
       ELSE strategy("adaptive_conversation", 800, "respond")

\* generateResponse from the return of the hosted model on; outcome.kind is "ok"
\* (response.text() is outcome.text), "malformed" (response.text() throws) or "throw"
\* (generateContent rejects); random picks the fallback
responseFrom(outcome, conflicts, random) ==
    IF outcome.kind = "ok"
    THEN integrateConflictClarification(outcome.text, conflicts)
    ELSE fallbackResponses[random]

----------------------------------------------------------------------------
(* POST /api/gigi-chat: the handler, cut at the points where it waits *)

NoBody == [sessionId |-> NoId, conversationHistory |-> <<>>]
NoAnalysis ==
    [primaryEmotion |-> "", intensity |-> "", isAngryWithVahant |-> FALSE,
     confidence |-> 0]
NoResult == [status |-> 0, gigiResponse |-> <<>>, sessionId |-> NoId]

\* pc: idle, emotion / facts / response (waiting for the hosted model), save (waiting
\* for the file write), done
IdleRequest ==
    [pc |-> "idle", body |-> NoBody, sessionId |-> NoId, latestMessage |-> NoMessage,
     emotionAnalysis |-> NoAnalysis, facts |-> <<>>, conflicts |-> <<>>,
     snapshot |-> EmptyMap, result |-> NoResult]

greetingReply == <<"Hey", "hun!">>
promptReply == <<"Hey", "bestie!">>
duplicateReply == <<"I", "just", "responded", "to", "that!">>

\* res.json / res.status(500).json
respond(rq, status, gigiResponse, sessionId) ==
    [rq EXCEPT !.pc = "done",
               !.result = [status |-> status, gigiResponse |-> gigiResponse,
                           sessionId |-> sessionId]]

\* the catch block of the handler
internalError(w, random) ==
    [w EXCEPT !.rq = respond(w.rq, 500, fallbackResponses[random],
                         IF w.rq.body.sessionId # NoId THEN w.rq.body.sessionId
                                                        ELSE "error_session")]

RECURSIVE storeAll(_, _)
storeAll(bank, facts) ==
    IF facts = <<>> THEN bank
    ELSE storeAll(storeFact(bank, Head(facts), <<>>), Tail(facts))

\* steps 3 to 8 of the handler, up to the hosted-model call of generateResponse
afterFacts(w, learned, random, t) ==
    LET rq == w.rq
        \* steps 5 to 8, with the facts stored and the user message in the session
        afterStore(conflictResolution, counted, stored, contextual) ==
            IF contextual.threw
            THEN internalError([counted EXCEPT !.bank = stored], random)
            ELSE [counted EXCEPT
                    !.bank = contextual.bank,
                    !.rq.conflicts = conflictResolution.needsImmediateAttention,
                    !.rq.pc = "response"]
        afterStoring(conflictResolution, counted, stored) ==
            afterStore(conflictResolution, counted, stored,
                getContextualFacts(stored, rq.latestMessage.text,
                    {IF rq.emotionAnalysis.primaryEmotion = "sad"
                     THEN "emotions" ELSE "all"},
                    5, t))
        afterCounting(conflictResolution, counted) ==
            IF conflictResolution.threw
            THEN internalError(counted, random)
            ELSE afterStoring(conflictResolution,
                    [counted EXCEPT
                        !.sess = updateSession(w.sess, rq.sessionId, rq.latestMessage,
                                               NoEmotion, t)],
                    storeAll(w.bank, learned.facts))
        afterConflicts(conflictResolution) ==
            afterCounting(conflictResolution,
                [w EXCEPT !.factCounter = learned.counter,
                          !.conflictCounter = conflictResolution.counter,
                          !.rq.facts = learned.facts])
    IN afterConflicts(detectConflicts(learned.facts, exportKnowledge(w.bank.memory),
                                      w.conflictCounter, t))

\* step 2: extractFacts answers at once for a simple message
startFacts(w, random, t) ==
    IF isSimpleMessage(w.rq.latestMessage.text)
    THEN afterFacts(w, [facts |-> <<>>, counter |-> w.factCounter], random, t)
    ELSE [w EXCEPT !.rq.pc = "facts"]

\* the handler from its start to its first wait; uuid is what randomUUID() returns
\* when the body names no session
startTurn(w, body, uuid, random, t) ==
    LET sessionId == IF body.sessionId = NoId THEN uuid ELSE body.sessionId
        created == getOrCreateSession(w.sess, sessionId, NoMessage, t)
        userMessages == SelectSeq(body.conversationHistory, LAMBDA msg : msg.sender = "user")
        latestMessage == userMessages[Len(userMessages)]
        latestInSession == getLatestUserMessage(created, sessionId)
        rq == [w.rq EXCEPT !.body = body, !.sessionId = sessionId]
    IN IF Len(body.conversationHistory) = 0
       THEN [w EXCEPT !.sess = IF body.sessionId = NoId THEN created ELSE @,
                      !.rq = respond(rq, 200, greetingReply, sessionId)]
       ELSE IF Len(userMessages) = 0
       THEN [w EXCEPT !.sess = created, !.rq = respond(rq, 200, promptReply, sessionId)]
       ELSE IF /\ ~isMessageNewer(created, sessionId, latestMessage)
               /\ latestInSession # NoMessage
               /\ latestInSession.text = latestMessage.text
       THEN [w EXCEPT !.sess = created, !.rq = respond(rq, 200, duplicateReply, sessionId)]
       ELSE IF isSimpleGreeting(latestMessage.text)
       THEN startFacts([w EXCEPT !.sess = created,
                                 !.rq = [rq EXCEPT !.latestMessage = latestMessage,
                                                   !.emotionAnalysis = greetingEmotion]],
                       random, t)
       ELSE [w EXCEPT !.sess = created,
                      !.rq = [rq EXCEPT !.latestMessage = latestMessage,
                                        !.pc = "emotion"]]

\* steps 9 to 11; save is the outcome of Math.random() < 0.1
afterResponse(w, response, save, t) ==
    LET rq == w.rq
        reply == [id |-> "gigi_" \o ToString(t), text |-> response, sender |-> "gigi",
                  timestamp |-> t]
        answered == respond(rq, 200, response, rq.sessionId)
    IN [w EXCEPT
           !.sess = updateSession(w.sess, rq.sessionId, reply,
                                  rq.emotionAnalysis.primaryEmotion, t),
           !.rq = IF save
                  THEN [answered EXCEPT !.pc = "save",
                                        !.snapshot = exportKnowledge(w.bank.memory)]
                  ELSE answered]

----------------------------------------------------------------------------
(* Inputs of the Memory Bank operations *)

NewConfInputs == {-100, 600, 1200}
Thresholds == {500, 900}
CleanupFloors == {300, 950}
AgeInputs == 0..MaxDays
Choices == {"new", "existing", "merge"}

\* a new fact of a conflict: a fact not stored yet, or a fact object the bank holds
\* (the handler stores the extracted facts right after detecting conflicts)
NewFactChoices ==
    {f \in FactInputs : f.id \notin DOMAIN memory}
        \cup {memory[i].fact : i \in DOMAIN memory}

\* the conflicts detectConflicts can report against the current export: a new fact
\* paired with an entry of the snapshot bucket of its category
ConflictInputs ==
    LET snapshot == exportKnowledge(memory)
    IN UNION {
         {[newFact |-> nf,
           existingFact |-> mockExistingFact(nf, snapshot[nf.category][k], k, now)] :
              k \in (IF nf.category \in DOMAIN snapshot
                     THEN DOMAIN snapshot[nf.category] ELSE {}) \ {nf.id}} :
         nf \in NewFactChoices}

Slots == CatInputs \X FactIds
Nest(S, g) ==
    [c \in {s[1] : s \in S} |->
        [k \in {s[2] : s \in {x \in S : x[1] = c}} |-> g[<<c, k>>]]]
SnapshotInputs ==
    UNION {{Nest(S, g) : g \in [S -> Contents]} :
              S \in {T \in SUBSET Slots : Cardinality(T) <= MaxImport}}

MergedIds == DOMAIN memory \ FactIds

----------------------------------------------------------------------------
(* Memory Bank operations as actions *)

Step ==
    /\ steps < MaxOps
    /\ steps' = steps + 1

SetBank(bank) ==
    /\ memory' = bank.memory
    /\ categoryIndex' = bank.categoryIndex
    /\ timelineIndex' = bank.timelineIndex

StoreFact ==
    /\ Step
    /\ \E fact \in FactInputs :
        /\ SetBank(storeFact(Bank, fact, <<>>))
        /\ op' = [name |-> "storeFact", fact |-> fact]
        /\ UNCHANGED <<now, sessionVars, chatVars>>

UpdateFactConfidence ==
    /\ Step
    /\ \E factId \in FactIds \cup DOMAIN memory, c \in NewConfInputs, v \in {FALSE} :
        /\ SetBank(updateFactConfidence(Bank, factId, c, v))
        /\ op' = [name |-> "updateFactConfidence", factId |-> factId,
                  newConfidence |-> c, verified |-> v]
        /\ UNCHANGED <<now, sessionVars, chatVars>>

ResolveConflict ==
    /\ Step
    /\ \E conflictInfo \in ConflictInputs, userChoice \in Choices :
        /\ userChoice = "merge" =>
              /\ Len(conflictInfo.existingFact.content) + 2
                    + Len(conflictInfo.newFact.content) <= MaxContentLen
              /\ \/ mergedId(now) \in DOMAIN memory
                 \/ Cardinality(MergedIds) < MaxMerged
        /\ SetBank(resolveConflict(Bank, conflictInfo, userChoice, now))
        /\ op' = [name |-> "resolveConflict", conflictInfo |-> conflictInfo,
                  userChoice |-> userChoice]
        /\ UNCHANGED <<now, sessionVars, chatVars>>

ImportKnowledge ==
    /\ Step
    /\ \E knowledge \in SnapshotInputs :
        \E order \in Perms(DOMAIN knowledge) :
            /\ SetBank(importKnowledge(Bank, knowledge, order, now))
            /\ op' = [name |-> "importKnowledge", knowledge |-> knowledge,
                      revised |->
                          {key \in DOMAIN memory \cap
                                   UNION {DOMAIN knowledge[c] : c \in DOMAIN knowledge} :
                              /\ memory[key].confidence # memory[key].fact.confidence
                              /\ memory[key].confidence # 800
                              /\ ~memory[key].verified}]
        /\ UNCHANGED <<now, sessionVars, chatVars>>

Cleanup ==
    /\ Step
    /\ \E minConfidence \in CleanupFloors, maxAge \in AgeInputs :
        /\ SetBank(cleanup(Bank, minConfidence, maxAge, now))
        /\ op' = [name |-> "cleanup", minConfidence |-> minConfidence,
                  maxAge |-> maxAge,
                  deleted |-> DOMAIN memory \ DOMAIN cleanup(Bank, minConfidence, maxAge, now).memory]
        /\ UNCHANGED <<now, sessionVars, chatVars>>

GetFactsByCategory ==
    /\ Step
    /\ \E category \in CatInputs, minConfidence \in Thresholds :
        \E result \in getFactsByCategory(Bank, category, minConfidence) :
            /\ \A factId \in keptIds(Bank, category, minConfidence) :
                  memory[factId].accessCount < MaxAccess
            /\ SetBank(touch(Bank, keptIds(Bank, category, minConfidence)))
            /\ op' = [name |-> "getFactsByCategory", category |-> category,
                      minConfidence |-> minConfidence, result |-> result]
        /\ UNCHANGED <<now, sessionVars, chatVars>>

\* exportKnowledge() of this bank imported into a freshly constructed bank
RoundTrip ==
    LET snapshot == exportKnowledge(memory)
    IN \E order \in Perms(DOMAIN snapshot) :
          /\ op' = [name |-> "roundTrip",
                    restored |-> importKnowledge(EmptyBank, snapshot, order, now)]
          /\ UNCHANGED <<now, bankVars, sessionVars, chatVars, steps>>

TickMs ==
    /\ now % DayMs < MaxMs
    /\ now' = now + 1
    /\ op' = [name |-> "tick"]
    /\ UNCHANGED <<bankVars, sessionVars, chatVars, steps>>

TickDay ==
    /\ now \div DayMs < MaxDays
    /\ now' = now + DayMs
    /\ op' = [name |-> "tick"]
    /\ UNCHANGED <<bankVars, sessionVars, chatVars, steps>>

BankInit ==
    /\ now = 0
    /\ memory = EmptyMap
    /\ categoryIndex = EmptyMap
    /\ timelineIndex = EmptyMap
    /\ sessions = EmptyMap
    /\ factCounter = 0
    /\ conflictCounter = 0
    /\ knowledgeBase = EmptyMap
    /\ req = [r \in 1..NumRequests |-> IdleRequest]
    /\ op = [name |-> "init"]
    /\ prev = [name |-> "init"]
    /\ steps = 0

BankNext ==
    \/ StoreFact
    \/ UpdateFactConfidence
    \/ ResolveConflict
    \/ ImportKnowledge
    \/ Cleanup
    \/ GetFactsByCategory
    \/ RoundTrip
    \/ TickMs
    \/ TickDay

SpecBank == BankInit /\ [][BankNext]_vars

----------------------------------------------------------------------------
(* Claims about the Memory Bank, checked under SpecBank *)

\* C1: every fact id held in a category-index or timeline-index bucket has a
\* MemoryEntry in the main map, and every MemoryEntry's id is held in the bucket
\* of its own fact's category and of its own fact's day.
C1_IndexesMatchMemory ==
    /\ \A c \in DOMAIN categoryIndex : categoryIndex[c] \subseteq DOMAIN memory
    /\ \A d \in DOMAIN timelineIndex : timelineIndex[d] \subseteq DOMAIN memory
    /\ \A i \in DOMAIN memory :
          /\ memory[i].fact.category \in DOMAIN categoryIndex
          /\ i \in categoryIndex[memory[i].fact.category]
          /\ toDateString(memory[i].fact.timestamp) \in DOMAIN timelineIndex
          /\ i \in timelineIndex[toDateString(memory[i].fact.timestamp)]

\* C2 as stated: getFactsByCategory(f.category, t) returns a stored fact f exactly
\* when f's own confidence (Fact.confidence) is at least t.
C2_ReturnsByFactConfidence ==
    op.name = "getFactsByCategory" =>
        \A i \in DOMAIN memory :
            memory[i].fact.category = op.category =>
                (memory[i].fact \in Range(op.result)
                    <=> memory[i].fact.confidence >= op.minConfidence)

\* C2 as amended: getFactsByCategory(f.category, t) returns a stored fact f exactly
\* when the confidence of f's MemoryEntry (as storeFact set it and
\* updateFactConfidence or resolveConflict last revised it) is at least t.
C2_ReturnsByEntryConfidence ==
    op.name = "getFactsByCategory" =>
        \A i \in DOMAIN memory :
            memory[i].fact.category = op.category =>
                (memory[i].fact \in Range(op.result)
                    <=> memory[i].confidence >= op.minConfidence)

\* C2 witness: a read that returned a fact whose revised entry confidence reaches
\* the threshold while the fact's own confidence does not.
C2_Witness ==
    /\ op.name = "getFactsByCategory"
    /\ \E i \in DOMAIN memory :
          /\ memory[i].fact.category = op.category
          /\ memory[i].fact \in Range(op.result)
          /\ memory[i].fact.confidence < op.minConfidence

\* C3: resolveConflict, for each choice and also when called several times within
\* one clock tick, removes no entry and leaves the content stored under every id
\* that was present before the call unchanged.
C3_ResolveConflictIsAdditive ==
    [][(op'.name = "resolveConflict" /\ steps' = steps + 1) =>
          \A i \in DOMAIN memory :
              /\ i \in DOMAIN memory'
              /\ memory'[i].fact.content = memory[i].fact.content]_vars

\* C4: after resolveConflict(conflict, 'merge') on a conflict whose two ancestor
\* facts are stored, both ancestor ids are present with their original content,
\* and so is the merged fact.
C4_MergeKeepsAncestors ==
    [][(/\ op'.name = "resolveConflict"
        /\ steps' = steps + 1
        /\ op'.userChoice = "merge"
        /\ \A a \in {op'.conflictInfo.existingFact, op'.conflictInfo.newFact} :
              a.id \in DOMAIN memory /\ memory[a.id].fact.content = a.content)
       => /\ \A a \in {op'.conflictInfo.existingFact, op'.conflictInfo.newFact} :
                a.id \in DOMAIN memory' /\ memory'[a.id].fact.content = a.content
          /\ mergedId(now) \in DOMAIN memory']_vars

\* the (category, id, content) triples a bank holds
Triples(mem) ==
    {<<mem[i].fact.category, mem[i].fact.id, mem[i].fact.content>> : i \in DOMAIN mem}

\* C5: importing exportKnowledge() of any bank into an empty bank yields a bank
\* with the same (category, id, content) triples, and exporting it again gives the
\* same snapshot.
C5_ExportImportRoundTrip ==
    op.name = "roundTrip" =>
        /\ Triples(op.restored.memory) = Triples(memory)
        /\ exportKnowledge(op.restored.memory) = exportKnowledge(memory)

\* C5 witness: a round trip of a bank that holds facts of two categories, one of
\* them revised or merged since it was stored.
C5_Witness ==
    /\ op.name = "roundTrip"
    /\ Cardinality(DOMAIN exportKnowledge(memory)) >= 2
    /\ \E i \in DOMAIN memory : memory[i].confidence # memory[i].fact.confidence

\* C6: cleanup(minConfidence, maxAgeDays) deletes a fact if and only if its stored
\* confidence is below minConfidence, its timestamp is older than maxAgeDays and
\* its accessCount is 0; every other entry is kept as it was.
C6_CleanupDeletesExactly ==
    [][(op'.name = "cleanup" /\ steps' = steps + 1) =>
          \A i \in DOMAIN memory :
              IF /\ memory[i].confidence < op'.minConfidence
                 /\ now - memory[i].fact.timestamp > op'.maxAge * DayMs
                 /\ memory[i].accessCount = 0
              THEN i \notin DOMAIN memory'
              ELSE i \in DOMAIN memory' /\ memory'[i] = memory[i]]_vars

\* C6 witness: a cleanup that deleted a fact and kept another one that is below
\* the confidence floor and older than the age floor but has been accessed.
C6_Witness ==
    /\ op.name = "cleanup"
    /\ op.deleted # {}
    /\ \E i \in DOMAIN memory :
          /\ memory[i].accessCount > 0
          /\ memory[i].confidence < op.minConfidence
          /\ now - memory[i].fact.timestamp > op.maxAge * DayMs

\* C21: resolveConflict with choice 'existing' sets the stored confidence of the
\* existing fact to min(1.0, its previously stored confidence + 0.2), so the stored
\* confidence never decreases, marks the entry verified, and stores the new fact
\* with confidence 0.2.
C21_ExistingBoostedByOneFifth ==
    [][(/\ op'.name = "resolveConflict"
        /\ steps' = steps + 1
        /\ op'.userChoice = "existing"
        /\ op'.conflictInfo.existingFact.id \in DOMAIN memory)
       => LET existingId == op'.conflictInfo.existingFact.id
              newId == op'.conflictInfo.newFact.id
          IN /\ memory'[existingId].confidence
                    = Min(1000, memory[existingId].confidence + 200)
             /\ memory'[existingId].confidence >= memory[existingId].confidence
             /\ memory'[existingId].verified
             /\ newId \in DOMAIN memory'
             /\ memory'[newId].confidence = 200
             /\ memory'[newId].fact.confidence = 200]_vars

\* C22: getFactsByCategory returns its facts in non-increasing order of the stored
\* confidence it filters on (the confidence of the MemoryEntry), in every reachable
\* bank, also after updateFactConfidence or resolveConflict revised a confidence.
C22_SortedByFilterConfidence ==
    op.name = "getFactsByCategory" =>
        \A i, j \in DOMAIN op.result :
            i < j => memory[op.result[i].id].confidence
                        >= memory[op.result[j].id].confidence

\* C27: importKnowledge stores every snapshot entry with confidence 0.8 and
\* verified = true; for an id already in the Memory Bank it overwrites the entry, so
\* the revised confidence, the verified flag and the access count the entry had are
\* gone.
C27_ImportOverwrites ==
    op.name = "importKnowledge" =>
        \A category \in DOMAIN op.knowledge :
            \A key \in DOMAIN op.knowledge[category] :
                /\ key \in DOMAIN memory
                /\ memory[key].confidence = 800
                /\ memory[key].fact.confidence = 800
                /\ memory[key].verified
                /\ memory[key].fact.verified
                /\ memory[key].accessCount = 0
                /\ \E c \in DOMAIN op.knowledge :
                      /\ key \in DOMAIN op.knowledge[c]
                      /\ memory[key].fact.category = c
                      /\ memory[key].fact.content = op.knowledge[c][key]

\* an import named an id that the bank held unverified and with a revised
\* confidence other than 0.8
C27_Witness ==
    /\ op.name = "importKnowledge"
    /\ op.revised # {}

----------------------------------------------------------------------------
(* Inputs of the Session Manager operations *)

SessionIdPool == <<"s1", "s2", "s3">>
SessionIds == {SessionIdPool[i] : i \in 1..NumSessionIds}
Uuids == {"u1"}                       \* what randomUUID() can return
MsgIdPool == <<"m1", "m2", "m3">>
MsgIds == {MsgIdPool[i] : i \in 1..NumMsgIds}
FiveTopics == <<"Date", "outfit", "food", "vahant", "project">>
DateAtWork == <<"date", "work">>
Texts == {<<"hi">>, FiveTopics, DateAtWork}
Senders == {"user", "gigi"}
MsgTimes == {0, DUPLICATE_WINDOW - 1, DUPLICATE_WINDOW}
\* the later timestamps come with the text "hi" only
MessageInputs ==
    {m \in [id : MsgIds, text : Texts, sender : Senders, timestamp : MsgTimes] :
        m.text # <<"hi">> => m.timestamp = 0}
InitialMessageInputs ==
    {NoMessage} \cup {m \in MessageInputs : m.timestamp = 0 /\ m.text = <<"hi">>}
EmotionInputs == {NoEmotion, "happy"}

\* what the next call sees of the call before it
summary(o) ==
    IF o.name = "updateSession"
    THEN [name |-> o.name, sessionId |-> o.sessionId, id |-> o.message.id,
          existed |-> o.existed, before |-> o.before]
    ELSE [name |-> o.name]

----------------------------------------------------------------------------
(* Session Manager operations as actions *)

GetOrCreateSession ==
    /\ Step
    /\ \E given \in SessionIds \cup {NoId}, initialMessage \in InitialMessageInputs :
        \E sessionId \in (IF given = NoId THEN Uuids \ DOMAIN sessions ELSE {given}) :
            /\ sessions' = getOrCreateSession(sessions, sessionId, initialMessage, now)
            /\ op' = [name |-> "getOrCreateSession", given |-> given,
                      sessionId |-> sessionId, initialMessage |-> initialMessage]
    /\ prev' = summary(op)
    /\ UNCHANGED <<now, bankVars, chatVars>>

UpdateSession ==
    /\ Step
    /\ \E sessionId \in SessionIds, message \in MessageInputs,
          emotionalState \in EmotionInputs :
        /\ sessions' = updateSession(sessions, sessionId, message, emotionalState, now)
        /\ op' = [name |-> "updateSession", sessionId |-> sessionId,
                  message |-> message, emotionalState |-> emotionalState,
                  existed |-> sessionId \in DOMAIN sessions,
                  before |-> IF sessionId \in DOMAIN sessions
                             THEN sessions[sessionId].messages ELSE <<>>]
    /\ prev' = summary(op)
    /\ UNCHANGED <<now, bankVars, chatVars>>

IsMessageNewer ==
    /\ Step
    /\ \E sessionId \in SessionIds, message \in MessageInputs :
        op' = [name |-> "isMessageNewer", sessionId |-> sessionId, message |-> message,
               result |-> isMessageNewer(sessions, sessionId, message)]
    /\ prev' = summary(op)
    /\ UNCHANGED <<now, bankVars, chatVars, sessions>>

CleanupExpiredSessions ==
    /\ Step
    /\ sessions' = cleanupExpiredSessions(sessions, now)
    /\ op' = [name |-> "cleanupExpiredSessions", at |-> now,
              removed |-> DOMAIN sessions \ DOMAIN cleanupExpiredSessions(sessions, now)]
    /\ prev' = summary(op)
    /\ UNCHANGED <<now, bankVars, chatVars>>

AdvanceMs ==
    /\ now % SESSION_TIMEOUT < MaxMs
    /\ now' = now + 1
    /\ UNCHANGED <<bankVars, sessionVars, chatVars, op, steps>>

AdvanceTimeout ==
    /\ now \div SESSION_TIMEOUT < MaxTimeouts
    /\ now' = now + SESSION_TIMEOUT
    /\ UNCHANGED <<bankVars, sessionVars, chatVars, op, steps>>

SessionNext ==
    \/ GetOrCreateSession
    \/ UpdateSession
    \/ IsMessageNewer
    \/ CleanupExpiredSessions
    \/ AdvanceMs
    \/ AdvanceTimeout

SpecSession == BankInit /\ [][SessionNext]_vars

----------------------------------------------------------------------------
(* Claims about the Session Manager, checked under SpecSession *)

\* two consecutive updateSession calls on one session that existed at the first
\* call, with messages of the same id
TwoUpdatesSameId ==
    /\ op.name = "updateSession"
    /\ prev.name = "updateSession"
    /\ prev.sessionId = op.sessionId
    /\ prev.existed
    /\ prev.id = op.message.id

C8_IsMessageNewerTable ==
    op.name = "isMessageNewer" =>
        LET msgs == IF op.sessionId \in DOMAIN sessions
                    THEN sessions[op.sessionId].messages ELSE <<>>
            users == {i \in 1..Len(msgs) : msgs[i].sender = "user"}
            m == op.message
        IN IF users = {}
           THEN op.result = TRUE
           ELSE LET last == msgs[CHOOSE i \in users : \A j \in users : j <= i]
                IN /\ (m.id = last.id /\ m.timestamp = last.timestamp)
                          => op.result = FALSE
                   /\ m.timestamp > last.timestamp => op.result = TRUE
                   /\ (m.timestamp = last.timestamp /\ m.id # last.id)
                          => op.result = TRUE

\* C8 witness: a message with the id and the timestamp of the last stored user
\* message, which an agent message follows in the list, is reported not newer.
C8_Witness ==
    /\ op.name = "isMessageNewer"
    /\ op.result = FALSE
    /\ op.sessionId \in DOMAIN sessions
    /\ LET msgs == sessions[op.sessionId].messages
       IN /\ Len(msgs) >= 2
          /\ msgs[Len(msgs)].sender = "gigi"
          /\ \E i \in 1..Len(msgs) :
                /\ msgs[i].sender = "user"
                /\ msgs[i].id = op.message.id
                /\ msgs[i].timestamp = op.message.timestamp

\* C9: cleanupExpiredSessions removes every session whose lastActivity is more than
\* 30 minutes before the sweep, and keeps every session whose lastActivity is at
\* most 30 minutes old, with its messages unchanged.
C9_SweepRemovesOnlyExpired ==
    [][(op'.name = "cleanupExpiredSessions" /\ steps' = steps + 1) =>
          \A i \in DOMAIN sessions :
              IF now - sessions[i].lastActivity > 30 * 60 * 1000
              THEN i \notin DOMAIN sessions'
              ELSE /\ i \in DOMAIN sessions'
                   /\ sessions'[i].messages = sessions[i].messages]_vars

\* C9 witness: a sweep that removed a session and kept a session holding a message
\* whose lastActivity was exactly 30 minutes before the sweep.
C9_Witness ==
    /\ op.name = "cleanupExpiredSessions"
    /\ op.removed # {}
    /\ \E i \in DOMAIN sessions :
          /\ Len(sessions[i].messages) > 0
          /\ op.at - sessions[i].lastActivity = 30 * 60 * 1000

\* the topics of the user messages stored in a session, message by message
mentions(session) ==
    LET userMessages == SelectSeq(session.messages, LAMBDA msg : msg.sender = "user")
    IN [i \in DOMAIN userMessages |->
           Range(extractTopicsFromMessage(userMessages[i].text))]

\* the last stored user message that mentions the topic
lastMention(session, topic) ==
    CHOOSE i \in DOMAIN mentions(session) :
        /\ topic \in mentions(session)[i]
        /\ \A j \in DOMAIN mentions(session) : topic \in mentions(session)[j] => j <= i

\* C19: after any sequence of updateSession calls, currentTopics of a session holds
\* no topic twice, at most 5 topics and only topics of the user messages stored in
\* the session; when these messages mention more than 5 distinct topics,
\* currentTopics holds 5 topics and none of them was last mentioned before a topic
\* that it does not hold (the 5 most recently mentioned topics, the oldest-mentioned
\* dropped first).
C19_TopicsAreMostRecent ==
    \A sessionId \in DOMAIN sessions :
        LET session == sessions[sessionId]
            topics == session.context.currentTopics
            mentioned == UNION Range(mentions(session))
        IN /\ \A i, j \in DOMAIN topics : i # j => topics[i] # topics[j]
           /\ Len(topics) <= 5
           /\ Range(topics) \subseteq mentioned
           /\ Cardinality(mentioned) > 5 =>
                 /\ Len(topics) = 5
                 /\ \A kept \in Range(topics), dropped \in mentioned \ Range(topics) :
                       lastMention(session, dropped) <= lastMention(session, kept)

\* the stored message at position i has the text and the sender of message and a
\* timestamp less than one second away from it
sameWithinSecond(messages, i, message) ==
    /\ messages[i].text = message.text
    /\ messages[i].sender = message.sender
    /\ Abs(messages[i].timestamp - message.timestamp) < 1000

\* C25: updateSession on a session of the store appends nothing when the session
\* holds a message with the same text and sender whose timestamp differs by less
\* than 1000 ms, even if the ids differ; when no stored message matches by id or by
\* (text, sender, less than one second), it appends exactly one message, at the end,
\* and sets lastActivity to the time of the call.
C25_DuplicateWindow ==
    [][(/\ op'.name = "updateSession"
        /\ steps' = steps + 1
        /\ op'.sessionId \in DOMAIN sessions)
       => LET messages == sessions[op'.sessionId].messages
              message == op'.message
              after == sessions'[op'.sessionId]
          IN /\ (\E i \in DOMAIN messages : sameWithinSecond(messages, i, message))
                    => after.messages = messages
             /\ (\A i \in DOMAIN messages :
                      /\ messages[i].id # message.id
                      /\ ~sameWithinSecond(messages, i, message))
                    => /\ after.messages = Append(messages, message)
                       /\ after.lastActivity = now]_vars

\* an updateSession whose message has the text and sender of a stored message of
\* another id, 999 ms apart, left the messages as they were
C25_Witness ==
    /\ op.name = "updateSession"
    /\ op.existed
    /\ sessions[op.sessionId].messages = op.before
    /\ \A i \in DOMAIN op.before : op.before[i].id # op.message.id
    /\ \E i \in DOMAIN op.before :
          /\ sameWithinSecond(op.before, i, op.message)
          /\ op.before[i].timestamp # op.message.timestamp

\* C26: updateSession with a sessionId that is not in the Session Store leaves the
\* whole store unchanged: no session is created and no session's messages, topics,
\* emotionalState or lastActivity change.
C26_UnknownSessionIsNoOp ==
    [][(/\ op'.name = "updateSession"
        /\ steps' = steps + 1
        /\ op'.sessionId \notin DOMAIN sessions)
       => sessions' = sessions]_vars

\* an updateSession named a session that is not in the store while the store held
\* another session
C26_Witness ==
    /\ op.name = "updateSession"
    /\ ~op.existed
    /\ sessions # EmptyMap
    /\ op.sessionId \notin DOMAIN sessions

----------------------------------------------------------------------------
(* Inputs of the chat turn *)

Requests == 1..NumRequests
ChatTexts == {<<"hi">>, <<"going", "to", "paris">>}
\* the messages a client sends: the first id with either text, the others with "hi"
UserMessages ==
    {m \in [id : MsgIds, text : ChatTexts, sender : {"user"}, timestamp : {0}] :
        m.id # MsgIdPool[1] => m.text = <<"hi">>}
AgentMessage == [id |-> "g0", text |-> greetingReply, sender |-> "gigi", timestamp |-> 0]
BodyInputs ==
    [sessionId : {NoId} \cup Uuids,
     conversationHistory : {<<>>, <<AgentMessage>>} \cup {<<m>> : m \in UserMessages}]

ParsedEmotions ==
    {[primaryEmotion |-> "sad", intensity |-> "high", isAngryWithVahant |-> FALSE,
      confidence |-> 850],
     [primaryEmotion |-> "furious", intensity |-> "low", isAngryWithVahant |-> FALSE,
      confidence |-> 600]}
EmotionOutcomes ==
    {[kind |-> "ok", parsed |-> parsed] : parsed \in ParsedEmotions}
        \cup {[kind |-> kind, parsed |-> NoAnalysis] : kind \in {"malformed", "throw"}}

FactDataInputs ==
    [content : {<<"trip", "to", "paris">>, Undefined}, category : {"plans"},
     confidence : {400, 900}, needsVerification : {FALSE}]
FactOutcomes ==
    {[kind |-> "ok", facts |-> facts] :
        facts \in UNION {[1..n -> FactDataInputs] : n \in 0..MaxModelFacts}}
        \cup {[kind |-> kind, facts |-> <<>>] : kind \in {"malformed", "throw"}}

ResponseOutcomes ==
    {[kind |-> "ok", text |-> <<"r1">>], [kind |-> "malformed", text |-> <<>>],
     [kind |-> "throw", text |-> <<>>]}

\* learnedFacts of the knowledgeBase.json found at start-up
KnowledgeFiles == {[plans |-> [trip |-> <<"trip", "to", "rome">>]]}

----------------------------------------------------------------------------
(* The chat server *)

World(r) ==
    [bank |-> Bank, sess |-> sessions, factCounter |-> factCounter,
     conflictCounter |-> conflictCounter, rq |-> req[r]]

Commit(r, w) ==
    /\ SetBank(w.bank)
    /\ sessions' = w.sess
    /\ factCounter' = w.factCounter
    /\ conflictCounter' = w.conflictCounter
    /\ req' = [req EXCEPT ![r] = w.rq]

\* a request arrives; requests are numbered in the order of their arrival
Receive(r) ==
    /\ req[r].pc = "idle"
    /\ \A q \in 1..(r - 1) : req[q].pc # "idle"
    /\ \E body \in BodyInputs, random \in 1..Len(fallbackResponses) :
        \E uuid \in (IF body.sessionId = NoId THEN Uuids \ DOMAIN sessions ELSE {NoId}) :
            Commit(r, startTurn(World(r), body, uuid, random, now))
    /\ UNCHANGED <<now, knowledgeBase, op, prev, steps>>

\* the hosted model returns to detectEmotion
EmotionReturns(r) ==
    /\ req[r].pc = "emotion"
    /\ \E outcome \in EmotionOutcomes, random \in 1..Len(fallbackResponses) :
        LET w == World(r)
            analysis == emotionFrom(outcome, w.rq.latestMessage.text)
        IN Commit(r, startFacts([w EXCEPT !.rq.emotionAnalysis = analysis], random, now))
    /\ UNCHANGED <<now, knowledgeBase, op, prev, steps>>

\* the hosted model returns to extractFacts
FactsReturn(r) ==
    /\ req[r].pc = "facts"
    /\ \E outcome \in FactOutcomes, random \in 1..Len(fallbackResponses) :
        LET w == World(r)
            learned == factsFrom(outcome, w.rq.latestMessage.text, w.factCounter, now)
        IN Commit(r, afterFacts(w, learned, random, now))
    /\ UNCHANGED <<now, knowledgeBase, op, prev, steps>>

\* the hosted model returns to generateResponse
ResponseReturns(r) ==
    /\ req[r].pc = "response"
    /\ \E outcome \in ResponseOutcomes, random \in 1..Len(fallbackResponses),
          save \in BOOLEAN :
        LET w == World(r)
        IN Commit(r, afterResponse(w, responseFrom(outcome, w.rq.conflicts, random),
                                   save, now))
    /\ UNCHANGED <<now, knowledgeBase, op, prev, steps>>

\* fs.promises.writeFile of saveKnowledge completes
SaveCompletes(r) ==
    /\ req[r].pc = "save"
    /\ knowledgeBase' = req[r].snapshot
    /\ req' = [req EXCEPT ![r].pc = "done", ![r].snapshot = EmptyMap]
    /\ UNCHANGED <<now, bankVars, sessions, factCounter, conflictCounter, op, prev, steps>>

\* setInterval(() => sessionManager.cleanupExpiredSessions(), ...)
SessionSweepTimer ==
    /\ sessions' = cleanupExpiredSessions(sessions, now)
    /\ UNCHANGED <<now, bankVars, chatVars, op, prev, steps>>

\* setInterval(() => memoryBank.cleanup(), ...) with minConfidence 0.3, maxAge 30 days
MemoryCleanupTimer ==
    /\ SetBank(cleanup(Bank, 300, 30, now))
    /\ UNCHANGED <<now, sessionVars, chatVars, op, steps>>

\* time passes while the server runs: more than one session timeout at a step
TimePasses ==
    /\ now \div SESSION_TIMEOUT < MaxTimeouts
    /\ now' = now + SESSION_TIMEOUT + 1
    /\ UNCHANGED <<bankVars, sessionVars, chatVars, op, steps>>

\* initializeServices: loadExistingKnowledge into a new bank
Init ==
    /\ now = 0
    /\ knowledgeBase \in KnowledgeFiles
    /\ \E order \in Perms(DOMAIN knowledgeBase) :
          LET loaded == importKnowledge(EmptyBank, knowledgeBase, order, 0)
          IN /\ memory = loaded.memory
             /\ categoryIndex = loaded.categoryIndex
             /\ timelineIndex = loaded.timelineIndex
    /\ sessions = EmptyMap
    /\ factCounter = 0
    /\ conflictCounter = 0
    /\ req = [r \in Requests |-> IdleRequest]
    /\ op = [name |-> "init"]
    /\ prev = [name |-> "init"]
    /\ steps = 0

Next ==
    \/ \E r \in Requests : Receive(r)
    \/ \E r \in Requests : EmotionReturns(r)
    \/ \E r \in Requests : FactsReturn(r)
    \/ \E r \in Requests : ResponseReturns(r)
    \/ \E r \in Requests : SaveCompletes(r)
    \/ SessionSweepTimer
    \/ MemoryCleanupTimer
    \/ TimePasses

Spec == Init /\ [][Next]_vars

----------------------------------------------------------------------------
(* Claims about the chat turn, checked under Spec *)

\* C10: whatever the hosted model does at the emotion-detection, fact-extraction and
\* response-generation calls (an answer, a malformed answer, a failure), no chat turn
\* whose history holds a user message ends with the HTTP 500 error result.
C10_TurnNeverEndsInError ==
    \A r \in Requests :
        req[r].pc = "done" /\ req[r].latestMessage # NoMessage
            => req[r].result.status # 500

\* C16: when the latest user message of the history is a recognised greeting phrase
\* (such as "hi"), detectEmotion returns primaryEmotion happy, intensity low and
\* confidence 0.9 at once: the request never waits for the hosted model's answer to
\* an emotion prompt.
C16_GreetingShortCircuit ==
    \A r \in Requests :
        req[r].latestMessage # NoMessage /\ isSimpleGreeting(req[r].latestMessage.text)
            => /\ req[r].pc # "emotion"
               /\ req[r].emotionAnalysis.primaryEmotion = "happy"
               /\ req[r].emotionAnalysis.intensity = "low"
               /\ req[r].emotionAnalysis.confidence = 900

\* C17: for any interleaving of two chat requests for the same session that carry
\* the same latest user message (same id, text and timestamp), the duplicate guard
\* lets at most one of them run fact extraction and storage: never have both passed
\* the guard and stored facts of that message while the other was still being
\* handled, and the session holds that user message at most once.
C17_DuplicateGuardAdmitsOne ==
    \A r1, r2 \in Requests :
        /\ r1 # r2
        /\ req[r1].latestMessage # NoMessage
        /\ req[r1].latestMessage = req[r2].latestMessage
        /\ req[r1].sessionId = req[r2].sessionId
        /\ req[r1].pc = "response" /\ req[r2].pc = "response"
        => /\ req[r1].facts = <<>> \/ req[r2].facts = <<>>
           /\ req[r1].sessionId \in DOMAIN sessions =>
                 Cardinality({i \in DOMAIN sessions[req[r1].sessionId].messages :
                     sessions[req[r1].sessionId].messages[i] = req[r1].latestMessage}) <= 1

\* a turn for the message "hi" has been answered, and the session took the emotion
C16_Witness ==
    \E r \in Requests :
        /\ req[r].pc = "done"
        /\ req[r].result.status = 200
        /\ req[r].latestMessage # NoMessage
        /\ req[r].latestMessage.text = <<"hi">>
        /\ req[r].sessionId \in DOMAIN sessions
        /\ sessions[req[r].sessionId].context.emotionalState = "happy"

\* the latest user message of a conversation history
latestUserMessage(conversationHistory) ==
    LET userMessages == SelectSeq(conversationHistory, LAMBDA msg : msg.sender = "user")
    IN IF Len(userMessages) > 0 THEN userMessages[Len(userMessages)] ELSE NoMessage

\* request r arrives for a session in which a turn for the user message m has
\* completed, and m is the latest user message of its history again
Resubmits(r, m) ==
    /\ req[r].pc = "idle" /\ req'[r].pc # "idle"
    /\ latestUserMessage(req'[r].body.conversationHistory) = m
    /\ \E q \in Requests \ {r} :
          /\ req[q].pc = "done"
          /\ req[q].result.status = 200
          /\ req[q].latestMessage = m
          /\ req[q].sessionId = req'[r].sessionId

\* request r is answered with the canned duplicate reply; the facts of the bank and
\* the message list of the session are as before
AnsweredAsDuplicate(r) ==
    /\ req'[r].pc = "done"
    /\ req'[r].result.status = 200
    /\ req'[r].result.gigiResponse = duplicateReply
    /\ memory' = memory
    /\ req'[r].sessionId \in DOMAIN sessions
    /\ sessions'[req'[r].sessionId].messages = sessions[req'[r].sessionId].messages

\* C20 as stated: if a turn for the user message m has completed in a session, a later
\* request to the same session whose latest user message is m again (same id,
\* timestamp and text) is answered with the canned duplicate reply and leaves the
\* facts of the Memory Bank and the message list of the session unchanged.
C20_ResubmissionIsDuplicate ==
    [][\A r \in Requests, m \in UserMessages :
          Resubmits(r, m) => AnsweredAsDuplicate(r)]_vars

\* C20 as amended: the same, provided the session is still in the store and m is
\* still the latest user message stored in it.
C20_ResubmissionOfLatestStored ==
    [][\A r \in Requests, m \in UserMessages :
          /\ Resubmits(r, m)
          /\ req'[r].sessionId \in DOMAIN sessions
          /\ getLatestUserMessage(sessions, req'[r].sessionId) = m
          => AnsweredAsDuplicate(r)]_vars

\* a resubmitted message has been answered with the duplicate reply
C20_Witness ==
    \E r, q \in Requests :
        /\ r # q
        /\ req[q].pc = "done" /\ req[q].result.status = 200
        /\ req[q].latestMessage # NoMessage
        /\ req[q].facts # <<>>
        /\ req[r].pc = "done"
        /\ req[r].sessionId = req[q].sessionId
        /\ latestUserMessage(req[r].body.conversationHistory) = req[q].latestMessage
        /\ req[r].result.gigiResponse = duplicateReply
        /\ getLatestUserMessage(sessions, req[r].sessionId) = req[q].latestMessage

\* request r gets its generated reply at this step (step 9 of the handler has run)
\* and its session is in the store
RepliesInSession(r) ==
    /\ req[r].pc = "response"
    /\ req'[r].pc \in {"save", "done"}
    /\ req'[r].result.status = 200
    /\ req'[r].sessionId \in DOMAIN sessions'

\* C28: after every chat turn that completes with a generated reply, the
\* emotionalState of the session's context is the primaryEmotion detected in that
\* turn, for any sequence of turns on the session, also for turns less than a second
\* apart that produce the same reply text.
C28_EmotionalStateFollowsTurn ==
    [][\A r \in Requests :
          RepliesInSession(r) =>
              sessions'[req'[r].sessionId].context.emotionalState
                  = req'[r].emotionAnalysis.primaryEmotion]_vars

\* the messages hold one with the id of message, or with its text and its sender
holds(messages, message) ==
    \E i \in DOMAIN messages :
        \/ messages[i].id = message.id
        \/ messages[i].text = message.text /\ messages[i].sender = message.sender

\* C29: the expiry sweep never removes a session while a chat turn for it is in
\* flight: however cleanupExpiredSessions interleaves with a turn that waits for the
\* hosted model, when the turn completes with its reply the session named by the
\* returned sessionId exists and holds the user message of the turn and the reply.
C29_SessionOutlivesTurn ==
    [][\A r \in Requests :
          /\ (/\ req[r].pc \in {"emotion", "facts", "response"}
              /\ req[r].sessionId \in DOMAIN sessions)
             => req[r].sessionId \in DOMAIN sessions'
          /\ (/\ req[r].pc = "response"
              /\ req'[r].pc \in {"save", "done"}
              /\ req'[r].result.status = 200)
             => /\ req'[r].result.sessionId \in DOMAIN sessions'
                /\ holds(sessions'[req'[r].result.sessionId].messages,
                         req'[r].latestMessage)
                /\ holds(sessions'[req'[r].result.sessionId].messages,
                         [id |-> "gigi_" \o ToString(now),
                          text |-> req'[r].result.gigiResponse,
                          sender |-> "gigi"])]_vars

----------------------------------------------------------------------------
(* Fact learning: steps 2 to 4 of the chat turn (extractFacts, detectConflicts on the
   export of the bank, storeFact of every extracted fact) on a bank loaded from a
   knowledge file, with updateFactConfidence called on the stored facts *)

LoveSpicy == <<"I", "love", "spicy", "food">>
HateSpicy == <<"I", "hate", "spicy", "food">>
DateWithSam == <<"I'm", "going", "on", "a", "date", "with", "Sam", "tomorrow">>
LearnTexts == {LoveSpicy, HateSpicy, DateWithSam, <<"going", "to", "paris">>}

\* what the hosted model can answer for a message: no JSON, a failure, or JSON with
\* at most MaxModelFacts facts that restate the message, under a category and a
\* confidence of the model's choice (and, for one message, the same fact twice)
LearnFactData(message) ==
    {d \in [content : {message}, category : {"preferences", "interests", "hobbies"},
            confidence : {400, 550, 900, 1500}, needsVerification : BOOLEAN] :
        /\ \/ d.category = "preferences"
           \/ d.category = "interests" /\ d.confidence \in {550, 900}
           \/ d.category = "hobbies" /\ d.confidence = 900
        /\ d.needsVerification => d.category = "preferences" /\ d.confidence = 900}
LearnOutcomes(message) ==
    {[kind |-> "ok", facts |-> facts] :
        facts \in UNION {[1..n -> LearnFactData(message)] : n \in 0..MaxModelFacts}}
        \cup {[kind |-> kind, facts |-> <<>>] : kind \in {"malformed", "throw"}}
        \cup {[kind |-> "ok", facts |-> <<d, d>>] :
                 d \in {x \in LearnFactData(message) :
                           /\ message = HateSpicy
                           /\ x.category = "preferences"
                           /\ x.confidence = 900
                           /\ ~x.needsVerification}}

\* learnedFacts of the knowledgeBase.json found at start-up
LearnFiles ==
    {EmptyMap,
     [preferences |-> [pref1 |-> HateSpicy], interests |-> [int1 |-> LoveSpicy]]}

LearnTurn ==
    /\ Step
    /\ \E message \in LearnTexts :
        \E outcome \in LearnOutcomes(message) :
            LET finish(learned, snapshot, resolution) ==
                    /\ ~resolution.threw
                    /\ SetBank(storeAll(Bank, learned.facts))
                    /\ factCounter' = learned.counter
                    /\ conflictCounter' = resolution.counter
                    /\ op' = [name |-> "turn", message |-> message, outcome |-> outcome,
                              facts |-> learned.facts, snapshot |-> snapshot,
                              held |-> memory, conflicts |-> resolution.conflicts]
                detect(learned, snapshot) ==
                    finish(learned, snapshot,
                           detectConflicts(learned.facts, snapshot, conflictCounter, now))
            IN detect(extractFacts(outcome, message, factCounter, now),
                      exportKnowledge(memory))
    /\ prev' = op
    /\ UNCHANGED <<now, sessions, knowledgeBase, req>>

LearnUpdateConfidence ==
    /\ Step
    /\ \E factId \in DOMAIN memory, c \in NewConfInputs, v \in {FALSE} :
        /\ SetBank(updateFactConfidence(Bank, factId, c, v))
        /\ op' = [name |-> "updateFactConfidence", factId |-> factId,
                  newConfidence |-> c, verified |-> v]
    /\ prev' = op
    /\ UNCHANGED <<now, sessions, factCounter, conflictCounter, knowledgeBase, req>>

LearnInit ==
    /\ now = 0
    /\ knowledgeBase \in LearnFiles
    /\ \E order \in Perms(DOMAIN knowledgeBase) :
          LET loaded == importKnowledge(EmptyBank, knowledgeBase, order, 0)
          IN /\ memory = loaded.memory
             /\ categoryIndex = loaded.categoryIndex
             /\ timelineIndex = loaded.timelineIndex
    /\ sessions = EmptyMap
    /\ factCounter = 0
    /\ conflictCounter = 0
    /\ req = [r \in Requests |-> IdleRequest]
    /\ op = [name |-> "init"]
    /\ prev = [name |-> "init"]
    /\ steps = 0

LearnNext ==
    \/ LearnTurn
    \/ LearnUpdateConfidence
    \/ AdvanceMs

SpecLearn == LearnInit /\ [][LearnNext]_vars

----------------------------------------------------------------------------
(* Claims about fact learning, checked under SpecLearn *)

\* C11: every confidence value held in the Memory Bank, the stored fact's and its
\* entry's, lies between 0 and 1 (0 and 1000 thousandths) after any sequence of fact
\* extractions from the hosted model's output, stores and confidence updates.
C11_ConfidencesInUnitInterval ==
    \A i \in DOMAIN memory :
        /\ 0 <= memory[i].confidence /\ memory[i].confidence <= 1000
        /\ 0 <= memory[i].fact.confidence /\ memory[i].fact.confidence <= 1000

\* C12: every fact stored in the Memory Bank has one of the seven categories of
\* LearnedFact, whatever category string the hosted model's output carries.
C12_CategoriesInEnum ==
    \A i \in DOMAIN memory : memory[i].fact.category \in Categories

\* C13: detectConflicts never compares a new fact with an existing fact of another
\* category: the existing fact of every conflict reported in a turn is an entry of the
\* snapshot bucket of the new fact's category, and is held by the bank under that
\* category; a new fact whose category has no bucket in the snapshot has no conflict.
C13_ConflictsStayInCategory ==
    op.name = "turn" =>
        \A i \in DOMAIN op.conflicts :
            LET conflict == op.conflicts[i]
                category == conflict.newFact.category
                key == conflict.existingFact.id
            IN /\ category \in DOMAIN op.snapshot
               /\ key \in DOMAIN op.snapshot[category]
               /\ conflict.existingFact.content = op.snapshot[category][key]
               /\ key \in DOMAIN op.held
               /\ op.held[key].fact.category = category

\* a turn reports a conflict while the snapshot has a bucket of another category
\* whose fact contradicts the new fact as well
C13_Witness ==
    /\ op.name = "turn"
    /\ Len(op.conflicts) = 1
    /\ op.conflicts[1].newFact.category = "preferences"
    /\ op.conflicts[1].newFact.content = HateSpicy
    /\ \E i \in DOMAIN op.held :
          /\ op.held[i].fact.category = "interests"
          /\ op.held[i].fact.content = LoveSpicy

\* C14: with the hosted model disabled (generateContent fails, so the fallback
\* patterns run), extractFacts on "I'm going on a date with Sam tomorrow" yields
\* exactly one fact, of category plans, with confidence 0.7, whose content contains
\* "date" and "Sam".
C14_FallbackLearnsDateWithSam ==
    op.name = "turn" /\ op.message = DateWithSam /\ op.outcome.kind = "throw" =>
        /\ Len(op.facts) = 1
        /\ op.facts[1].category = "plans"
        /\ op.facts[1].confidence = 700
        /\ includes(op.facts[1].content, <<"date">>)
        /\ includes(op.facts[1].content, <<"Sam">>)

\* the facts of a turn are one fact, of category preferences, that restates the message
OnePreference(facts, message) ==
    /\ Len(facts) = 1
    /\ facts[1].category = "preferences"
    /\ facts[1].content = message

SpicyFoodConflict ==
    /\ Len(op.conflicts) = 1
    /\ op.conflicts[1].conflictType = "contradiction"
    /\ op.conflicts[1].newFact.category = "preferences"
    /\ op.conflicts[1].severity = "medium"

\* C15 as stated: for the two sequential turns "I love spicy food" and "I hate spicy
\* food" on a bank that was empty, detectConflicts on the second turn's facts against
\* the export taken after the first turn reports exactly one conflict, of type
\* contradiction, in category preferences, with severity medium.
C15_SpicyFoodContradiction ==
    /\ op.name = "turn" /\ op.message = HateSpicy
    /\ prev.name = "turn" /\ prev.message = LoveSpicy
    /\ prev.held = EmptyMap
    => SpicyFoodConflict

\* C15 as amended: the same, when the fact extraction of each of the two turns
\* yields exactly one fact, of category preferences, that restates the sentence of
\* the turn, and the bank held no preferences fact before the first turn; the
\* existing fact of the conflict is then the fact of the first turn.
C15_ContradictionOfExtractedPreferences ==
    /\ op.name = "turn" /\ op.message = HateSpicy
    /\ prev.name = "turn" /\ prev.message = LoveSpicy
    /\ "preferences" \notin DOMAIN prev.snapshot
    /\ OnePreference(prev.facts, LoveSpicy)
    /\ OnePreference(op.facts, HateSpicy)
    => /\ SpicyFoodConflict
       /\ op.conflicts[1].existingFact.id = prev.facts[1].id
       /\ op.conflicts[1].newFact = op.facts[1]

C15_Witness ==
    /\ op.name = "turn" /\ op.message = HateSpicy
    /\ prev.name = "turn" /\ prev.message = LoveSpicy
    /\ prev.held = EmptyMap
    /\ OnePreference(prev.facts, LoveSpicy)
    /\ OnePreference(op.facts, HateSpicy)
    /\ op.snapshot = [preferences |-> [x \in {prev.facts[1].id} |-> LoveSpicy]]
    /\ SpicyFoodConflict

\* C18: detectConflicts reports a conflict of type inconsistency, with severity low
\* and suggested resolution merge, for every new fact of a turn with confidence
\* below 0.6 and every fact of the same category that the bank holds with a
\* confidence above 0.8 and whose word similarity with the new fact lies strictly
\* between 0.3 and 0.8, when neither a contradiction nor a temporal conflict applies
\* to the pair.
C18_InconsistencyReported ==
    op.name = "turn" =>
        \A n \in DOMAIN op.facts, key \in DOMAIN op.held :
            LET newFact == op.facts[n]
                entry == op.held[key]
                similarity ==
                    calculateContentSimilarity(newFact.content, entry.fact.content)
            IN /\ newFact.category \in Categories
               /\ entry.fact.category = newFact.category
               /\ newFact.confidence < 600
               /\ entry.confidence > 800
               /\ 10 * similarity[1] > 3 * similarity[2]
               /\ 10 * similarity[1] < 8 * similarity[2]
               /\ checkContradiction(newFact, entry.fact) = NoConflict
               /\ checkTemporalConflict(newFact, entry.fact) = NoConflict
               => \E i \in DOMAIN op.conflicts :
                     /\ op.conflicts[i].newFact = newFact
                     /\ op.conflicts[i].existingFact.id = key
                     /\ op.conflicts[i].conflictType = "inconsistency"
                     /\ op.conflicts[i].severity = "low"
                     /\ op.conflicts[i].suggestedResolution = "merge"

\* the conflicts of the last turn reported for the new fact at position n of the
\* turn's facts and the snapshot entry of key
conflictsOfPair(n, key) ==
    {i \in DOMAIN op.conflicts :
        /\ op.conflicts[i].newFact = op.facts[n]
        /\ op.conflicts[i].existingFact.id = key}

\* the (position of a new fact, key of a snapshot entry of its category) pairs
sameCategoryPairs ==
    {pair \in (DOMAIN op.facts) \X (UNION {DOMAIN op.snapshot[c] : c \in DOMAIN op.snapshot}) :
        /\ op.facts[pair[1]].category \in DOMAIN op.snapshot
        /\ pair[2] \in DOMAIN op.snapshot[op.facts[pair[1]].category]}

\* the type of the first detector, in the order contradiction, temporal,
\* inconsistency, ambiguity, that matches the pair; "none" when none does
firstMatch(newFact, existingFact) ==
    IF checkContradiction(newFact, existingFact) # NoConflict THEN "contradiction"
    ELSE IF checkTemporalConflict(newFact, existingFact) # NoConflict THEN "temporal"
    ELSE IF checkInconsistency(newFact, existingFact) # NoConflict THEN "inconsistency"
    ELSE IF checkAmbiguity(newFact, existingFact) # NoConflict THEN "ambiguity"
    ELSE "none"

\* C23: for each pair of a new fact and an existing fact of the same category,
\* detectConflicts reports at most one conflict, whose type is that of the first
\* detector that matches in the order contradiction, temporal, inconsistency,
\* ambiguity; every conflict belongs to such a pair, so the number of conflicts
\* never exceeds the number of pairs.
C23_FirstDetectorWins ==
    op.name = "turn" =>
        /\ \A pair \in sameCategoryPairs :
              /\ Cardinality(conflictsOfPair(pair[1], pair[2])) <= 1
              /\ \A i \in conflictsOfPair(pair[1], pair[2]) :
                    op.conflicts[i].conflictType
                        = firstMatch(op.facts[pair[1]], op.conflicts[i].existingFact)
        /\ \A i \in DOMAIN op.conflicts :
              \E pair \in sameCategoryPairs : i \in conflictsOfPair(pair[1], pair[2])
        /\ Len(op.conflicts) <= Cardinality(sameCategoryPairs)

\* a turn reports a contradiction for a pair that the ambiguity detector matches too
C23_Witness ==
    /\ op.name = "turn"
    /\ \E i \in DOMAIN op.conflicts :
          /\ op.conflicts[i].conflictType = "contradiction"
          /\ checkAmbiguity(op.conflicts[i].newFact, op.conflicts[i].existingFact)
                # NoConflict

\* C30: the fact ids one Fact Extractor generates are pairwise distinct over the
\* life of the process, also for facts created within one clock millisecond: the
\* facts of a turn have ids that differ from each other and from every id the bank
\* holds, so storing them overwrites no fact extracted before.
C30_FactIdsDistinct ==
    [][(op'.name = "turn" /\ steps' = steps + 1) =>
          /\ \A m, n \in DOMAIN op'.facts :
                m # n => op'.facts[m].id # op'.facts[n].id
          /\ \A n \in DOMAIN op'.facts :
                /\ op'.facts[n].id \notin DOMAIN memory
                /\ op'.facts[n].id \in DOMAIN memory'
                /\ memory'[op'.facts[n].id].fact = op'.facts[n]
          /\ \A i \in DOMAIN memory :
                i \in DOMAIN memory' /\ memory'[i] = memory[i]]_vars

\* two turns in the same millisecond, the first with a fact and the second with two
C30_Witness ==
    /\ op.name = "turn"
    /\ prev.name = "turn"
    /\ Len(prev.facts) >= 1
    /\ Len(op.facts) >= 2
    /\ op.facts[1].timestamp = prev.facts[1].timestamp
    /\ \A n \in DOMAIN prev.facts : prev.facts[n].id \in DOMAIN memory

----------------------------------------------------------------------------
(* Response strategy: determineResponseStrategy applied to a response context *)

StrategyTexts ==
    {<<"Hi", "there">>, <<"good", "morning">>, <<"what's", "up">>,
     <<"how", "are", "you?">>, <<"however", "fine">>, <<"can", "you", "help">>,
     <<"is", "it", "really?">>, <<"i", "am", "fine">>, <<>>}
StrategyEmotions ==
    [primaryEmotion : {"sad", "excited", "angry", "neutral"},
     intensity : {"low", "high"}, isAngryWithVahant : BOOLEAN, confidence : {900}]
StrategyConflicts ==
    LET conflict(severity) == [conflictType |-> "contradiction", severity |-> severity]
    IN {<<>>, <<conflict("medium")>>, <<conflict("medium"), conflict("high")>>,
        <<conflict("high")>>}
StrategyFacts ==
    LET fact(category) == [category |-> category]
    IN {<<>>, <<fact("plans")>>, <<fact("relationship")>>, <<fact("preferences")>>,
        <<fact("emotions")>>, <<fact("preferences"), fact("plans")>>,
        <<fact("preferences"), fact("relationship")>>}
ContextInputs ==
    [currentMessage : StrategyTexts, emotionAnalysis : StrategyEmotions,
     learnedFacts : StrategyFacts, conflicts : StrategyConflicts]

DetermineResponseStrategy ==
    /\ op.name = "context"
    /\ op' = [name |-> "determineResponseStrategy", context |-> op.context,
              strategy |-> determineResponseStrategy(op.context)]
    /\ UNCHANGED <<now, bankVars, sessions, chatVars, prev, steps>>

StrategyInit ==
    /\ now = 0
    /\ memory = EmptyMap
    /\ categoryIndex = EmptyMap
    /\ timelineIndex = EmptyMap
    /\ sessions = EmptyMap
    /\ factCounter = 0
    /\ conflictCounter = 0
    /\ knowledgeBase = EmptyMap
    /\ req = [r \in Requests |-> IdleRequest]
    /\ \E context \in ContextInputs : op = [name |-> "context", context |-> context]
    /\ prev = [name |-> "init"]
    /\ steps = 0

StrategyNext == DetermineResponseStrategy

SpecStrategy == StrategyInit /\ [][StrategyNext]_vars

\* the decision table of the spec: condition and strategy of every rule, in order
strategyRules(context) ==
    LET emotion == context.emotionAnalysis
        high == emotion.intensity = "high"
        learned(category) ==
            \E i \in DOMAIN context.learnedFacts :
                context.learnedFacts[i].category = category
    IN << <<\E i \in DOMAIN context.conflicts : context.conflicts[i].severity = "high",
            "clarification_required">>,
          <<high /\ emotion.isAngryWithVahant, "supportive_roast">>,
          <<high /\ emotion.primaryEmotion = "sad", "emotional_support">>,
          <<high /\ emotion.primaryEmotion = "excited", "excitement_matching">>,
          <<learned("plans"), "plan_acknowledgment">>,
          <<learned("relationship"), "relationship_focus">>,
          <<learned("preferences"), "preference_exploration">>,
          <<isGreeting(context.currentMessage), "contextual_greeting">>,
          <<isQuestion(toLowerCase(context.currentMessage)), "intelligent_answer">>,
          <<TRUE, "adaptive_conversation">> >>

\* C24: determineResponseStrategy returns exactly one strategy, that of the first
\* rule that matches in the order: a high-severity conflict; high-intensity emotion
\* (angry at the third party, else sad, else excited); learned facts holding plans,
\* else relationship, else preferences; a greeting; a question; otherwise
\* adaptive_conversation.
C24_FirstMatchingRule ==
    op.name = "determineResponseStrategy" =>
        LET rules == strategyRules(op.context)
            first == CHOOSE i \in DOMAIN rules :
                        rules[i][1] /\ \A j \in 1..(i - 1) : ~rules[j][1]
        IN op.strategy.type = rules[first][2]

\* a strategy was chosen for a context where a high-intensity sad emotion and a
\* learned plan both apply: the emotion rule comes first
C24_Witness ==
    /\ op.name = "determineResponseStrategy"
    /\ op.context.conflicts = <<>>
    /\ op.context.emotionAnalysis.intensity = "high"
    /\ op.context.emotionAnalysis.primaryEmotion = "sad"
    /\ ~op.context.emotionAnalysis.isAngryWithVahant
    /\ \E i \in DOMAIN op.context.learnedFacts :
          op.context.learnedFacts[i].category = "plans"
    /\ op.strategy.type = "emotional_support"

====
